---- MODULE Spec2Model ----
\* MusicBoard: cellular-automaton boards driven by MIDI timelines.
\*   main.py  - 2D board with war pass, MIDI scheduler, interpolated rendering
\*   cube.py  - 3D board (B6/S567), pause toggle
\*   panda.py - MIDI note visualiser with an event cursor
\* Times are milliseconds.  Offsets (phase, a float in [0,1)) are hundredths,
\* scales (a float in [0.5,1.5]) are 254ths, so that 0.5 + velocity/127 is the
\* integer 127 + 2*velocity.
EXTENDS Integers, Sequences, FiniteSets, TLC

\* ---------------------------------------------------------------------------
\* Bounds of the model (the program's own values are in the comments)
\* ---------------------------------------------------------------------------
\* main.py:16  GRID_ROWS = 54 * 2
GRID_ROWS == 3
\* main.py:15  GRID_COLS = 96 * 2
GRID_COLS == 4
\* main.py:19  TRANSITION_FRAMES = int(FPS * TRANSITION_DURATION) = 30
TRANSITION_FRAMES == 2
\* cube.py:12-14  GRID_WIDTH = GRID_DEPTH = GRID_HEIGHT = 16
CUBE_GRID_WIDTH == 3
CUBE_GRID_DEPTH == 3
CUBE_GRID_HEIGHT == 2

\* hybrid.py:10-11  GRID_WIDTH = GRID_HEIGHT = 32
HYB_GRID_WIDTH == 4
HYB_GRID_HEIGHT == 3
\* t of lerp_cell and draw_interpolated_grid is n / LerpSteps, n in 0 .. LerpSteps
LerpSteps == 6

\* the most frames of a sample handed to pitch_shift
MaxSampleLen == 4

\* game.py:22-23  GRID_COLS = 96, GRID_ROWS = 54
GAME_GRID_ROWS == 2
GAME_GRID_COLS == 2
\* the last clock reading (ms) at which a frame may still start
MaxClock == 700
\* input events pygame.event.get() returns in one frame
MaxFrameEvents == 1

\* ---------------------------------------------------------------------------
\* Program constants
\* ---------------------------------------------------------------------------
\* main.py:37  WAR_THRESHOLD = 0.2, in hundredths
WAR_THRESHOLD == 20
\* main.py:441 the percussion channel
DRUM_CHANNEL == 9
\* cube.py:24
BIRTH_COUNT == 6
\* cube.py:25
SURVIVE_COUNTS == {5, 6, 7}
\* main.py:313, 314
min_note == 21
max_note == 108

\* main.py:22-30 ROYGBIV, each with alpha 255 appended where a cell is made
ROYGBIV ==
  << <<255, 64, 64>>, <<255, 165, 64>>, <<255, 255, 64>>, <<64, 255, 64>>,
     <<64, 64, 255>>, <<138, 43, 226>>, <<186, 85, 211>> >>

\* ---------------------------------------------------------------------------
\* Cells and grids of main.py
\* ---------------------------------------------------------------------------
\* Python's None in a grid entry
None == [none |-> TRUE]

Rows == 0 .. (GRID_ROWS - 1)
Cols == 0 .. (GRID_COLS - 1)
Coords == Rows \X Cols

\* range(GRID_ROWS) x range(GRID_COLS), row-major: the order of every scan
ScanOrder == [i \in 1 .. (GRID_ROWS * GRID_COLS) |->
                <<(i - 1) \div GRID_COLS, (i - 1) % GRID_COLS>>]

\* the list [-1, 0, 1] of main.py:207, 208, 254, 255 and cube.py:95-97
Deltas == <<-1, 0, 1>>

\* random.choice(ROYGBIV) + (255,)
RGBA(i) == <<ROYGBIV[i][1], ROYGBIV[i][2], ROYGBIV[i][3], 255>>

\* {"color": ..., "offset": ..., "scale": ...}
MkCell(col, off, sc) == [color |-> col, offset |-> off, scale |-> sc]

\* ---------------------------------------------------------------------------
\* Memory: Python objects with identity.  A grid (list of row lists) is one
\* entry of lists; a cell dict is one entry of dicts.  A grid entry holds 0
\* (None) or the id of a dict.  Cell dicts are shared by reference exactly as
\* the code shares them.
\* ---------------------------------------------------------------------------
EmptyMem == [dicts |-> << >>, lists |-> << >>]

\* e, with v evaluated first: a loop hands the next iteration a value, not the
\* pending computation of all iterations so far
Having(v, e) == IF v = v THEN e ELSE e

\* v, evaluated in full
Value(v) == IF v = v THEN v ELSE v

\* a new dict object
NewDict(mem, cell) ==
  [mem |-> [mem EXCEPT !.dicts = Append(@, cell)], ret |-> Len(mem.dicts) + 1]

\* a new list-of-lists object holding the entries of g
NewList(mem, g) ==
  [mem |-> [mem EXCEPT !.lists = Append(@, g)], ret |-> Len(mem.lists) + 1]

\* grid[r][c] = ref
SetItem(mem, gid, p, ref) == [mem EXCEPT !.lists[gid][p] = ref]

\* Python index i into a list of length n: -1 when it raises IndexError;
\* a negative index in range counts from the end
PyIndex(i, n) == IF 0 <= i /\ i < n THEN i
                 ELSE IF i < 0 /\ i >= -n THEN n + i
                 ELSE -1

\* main.py:180-181
create_grid(mem) == NewList(mem, [p \in Coords |-> 0])

\* the grid of values a list object holds
ValueOf(mem, gid) ==
  Value([p \in Coords |-> IF mem.lists[gid][p] = 0 THEN None
                          ELSE mem.dicts[mem.lists[gid][p]]])

\* the live coordinates of a grid of values
Alive(g) == {p \in DOMAIN g : g[p] # None}

\* ---------------------------------------------------------------------------
\* The decision source: what random.choice / random.random / random.uniform
\* return during one call.  birth[p] is the cell made for a birth at p;
\* war[<<p, q>>] is whether random.random() < WAR_PROBABILITY when cell p
\* looks at neighbour q.
\* ---------------------------------------------------------------------------
BirthA == MkCell(RGBA(1), 0, 127)
BirthB == MkCell(RGBA(5), 50, 381)

\* the decision sources, by name: the cell of every birth (A, B, or A and B
\* in a chequered pattern) and where a war is won (never, always, or against
\* the neighbours on the even squares)
RndSource(name) ==
  [birth |-> [p \in Coords |->
                IF name = "b_always" \/ (name = "mixed" /\ (p[1] + p[2]) % 2 = 1)
                THEN BirthB ELSE BirthA],
   war   |-> [pq \in Coords \X Coords |->
                \/ name \in {"a_always", "b_always"}
                \/ name = "mixed" /\ (pq[2][1] + pq[2][2]) % 2 = 0]]

\* the decision sources the frame loop of main() is run with
FrameSources == {"a_always", "mixed"}

\* ---------------------------------------------------------------------------
\* main.py: count_neighbors, update_logic, apply_war_rules
\* ---------------------------------------------------------------------------
\* the bug of a bounds test without the lower bounds: rr < GRID_ROWS and
\* cc < GRID_COLS
InBoundsAbove(rr, cc) == rr < GRID_ROWS /\ cc < GRID_COLS

\* main.py:212 (and 258)  0 <= rr < GRID_ROWS and 0 <= cc < GRID_COLS
InBounds(rr, cc) == 0 <= rr /\ rr < GRID_ROWS /\ 0 <= cc /\ cc < GRID_COLS

\* grid[rr][cc] as Python evaluates it: IndexError past the end, wrap-around
\* for a negative index
GetItem(mem, gid, rr, cc) ==
  IF PyIndex(rr, GRID_ROWS) < 0 \/ PyIndex(cc, GRID_COLS) < 0
  THEN [raised |-> TRUE, ref |-> 0, at |-> <<rr, cc>>]
  ELSE [raised |-> FALSE,
        ref |-> mem.lists[gid][<<PyIndex(rr, GRID_ROWS), PyIndex(cc, GRID_COLS)>>],
        at |-> <<rr, cc>>]

\* main.py:212-213: what the subscript grid[rr][cc] gave, x, does to the
\* count.  acc.reads collects the index pairs the code subscripts the grid with.
count_one(acc, x) ==
  [count  |-> IF ~x.raised /\ x.ref # 0 THEN acc.count + 1 ELSE acc.count,
   raised |-> x.raised,
   reads  |-> acc.reads \cup {x.at}]

\* main.py:210-213: rr, cc = r + dr, c + dc and the test of line 212
count_at(mem, gid, rr, cc, acc) ==
  IF InBounds(rr, cc) THEN count_one(acc, GetItem(mem, gid, rr, cc)) ELSE acc

\* main.py:208-213  for dc in [-1, 0, 1], from the j-th dc on
RECURSIVE count_neighbors_dc(_, _, _, _, _, _, _)
count_neighbors_dc(mem, gid, r, c, dr, j, acc) ==
  IF j > Len(Deltas) \/ acc.raised THEN acc
  ELSE count_neighbors_dc(mem, gid, r, c, dr, j + 1,
                          IF dr = 0 /\ Deltas[j] = 0 THEN acc
                          ELSE count_at(mem, gid, r + dr, c + Deltas[j], acc))

\* main.py:207-213  for dr in [-1, 0, 1], from the i-th dr on
RECURSIVE count_neighbors_dr(_, _, _, _, _, _)
count_neighbors_dr(mem, gid, r, c, i, acc) ==
  IF i > Len(Deltas) \/ acc.raised THEN acc
  ELSE count_neighbors_dr(mem, gid, r, c, i + 1,
                          count_neighbors_dc(mem, gid, r, c, Deltas[i], 1, acc))

\* main.py:205-214
count_neighbors(mem, gid, r, c) ==
  count_neighbors_dr(mem, gid, r, c, 1,
                     [count |-> 0, raised |-> FALSE, reads |-> {}])

\* d is a dict just made: store it at p of the grid gid
store_new(d, gid, p) == SetItem(d.mem, gid, p, d.ret)

\* the bug of a war pass that changes the cell dict itself:
\* cell.update(neighbor)
war_neighbor_in_place(mem, new_grid, rnd, p, cref, x) ==
  IF /\ x.ref # 0
     /\ (mem.dicts[x.ref].offset - mem.dicts[cref].offset) > WAR_THRESHOLD
     /\ rnd.war[<<p, x.at>>]
  THEN [mem EXCEPT !.dicts[cref] = mem.dicts[x.ref]]
  ELSE mem

\* the bug of a test with >= for >: a neighbour whose offset is greater by
\* exactly WAR_THRESHOLD wins
war_neighbor_at_least(mem, new_grid, rnd, p, cref, x) ==
  IF /\ x.ref # 0
     /\ (mem.dicts[x.ref].offset - mem.dicts[cref].offset) >= WAR_THRESHOLD
     /\ rnd.war[<<p, x.at>>]
  THEN store_new(NewDict(mem, mem.dicts[x.ref]), new_grid, p)
  ELSE mem

\* main.py:259-263: the cell dict cref at p meets neighbor = grid[rr][cc],
\* which the subscript gave as x
war_neighbor(mem, new_grid, rnd, p, cref, x) ==
  IF /\ x.ref # 0
     /\ (mem.dicts[x.ref].offset - mem.dicts[cref].offset) > WAR_THRESHOLD
     /\ rnd.war[<<p, x.at>>]
  THEN store_new(NewDict(mem, mem.dicts[x.ref]), new_grid, p)
  ELSE mem

\* the bug of a neighbour read from the copy that is being written:
\* neighbor = new_grid[rr][cc]
war_at_from_copy(mem, grid, new_grid, rnd, p, cref, rr, cc) ==
  IF InBounds(rr, cc)
  THEN war_neighbor(mem, new_grid, rnd, p, cref, GetItem(mem, new_grid, rr, cc))
  ELSE mem

\* main.py:257-263: rr, cc = r + dr, c + dc and the test of line 258
war_at(mem, grid, new_grid, rnd, p, cref, rr, cc) ==
  IF InBounds(rr, cc)
  THEN war_neighbor(mem, new_grid, rnd, p, cref, GetItem(mem, grid, rr, cc))
  ELSE mem

\* main.py:254-263  for dc in [-1, 0, 1], from the j-th dc on
RECURSIVE war_dc(_, _, _, _, _, _, _, _)
war_dc(mem, grid, new_grid, rnd, p, cref, dr, j) ==
  IF j > Len(Deltas) THEN mem
  ELSE Having(mem,
         war_dc(IF dr = 0 /\ Deltas[j] = 0 THEN mem
                ELSE war_at(mem, grid, new_grid, rnd, p, cref,
                            p[1] + dr, p[2] + Deltas[j]),
                grid, new_grid, rnd, p, cref, dr, j + 1))

\* main.py:253-263  for dr in [-1, 0, 1], from the i-th dr on
RECURSIVE war_dr(_, _, _, _, _, _, _)
war_dr(mem, grid, new_grid, rnd, p, cref, i) ==
  IF i > Len(Deltas) THEN mem
  ELSE Having(mem,
         war_dr(war_dc(mem, grid, new_grid, rnd, p, cref, Deltas[i], 1),
                grid, new_grid, rnd, p, cref, i + 1))

\* main.py:251-263  cell = grid[r][c] and what follows
war_cell(mem, grid, new_grid, rnd, p) ==
  IF mem.lists[grid][p] # 0
  THEN war_dr(mem, grid, new_grid, rnd, p, mem.lists[grid][p], 1)
  ELSE mem

\* main.py:250-263  for c in range(GRID_COLS), from c on
RECURSIVE war_c(_, _, _, _, _, _)
war_c(mem, grid, new_grid, rnd, r, c) ==
  IF c >= GRID_COLS THEN mem
  ELSE Having(mem, war_c(war_cell(mem, grid, new_grid, rnd, <<r, c>>),
                         grid, new_grid, rnd, r, c + 1))

\* main.py:249-263  for r in range(GRID_ROWS), from r on
RECURSIVE war_r(_, _, _, _, _)
war_r(mem, grid, new_grid, rnd, r) ==
  IF r >= GRID_ROWS THEN mem
  ELSE Having(mem, war_r(war_c(mem, grid, new_grid, rnd, r, 0),
                         grid, new_grid, rnd, r + 1))

\* main.py:248  new_grid = [row.copy() for row in grid], then the loops
war_copy(n, grid, rnd) == [mem |-> war_r(n.mem, grid, n.ret, rnd, 0), ret |-> n.ret]

\* main.py:242-264
apply_war_rules(mem, grid, rnd) ==
  Having(mem, war_copy(NewList(mem, mem.lists[grid]), grid, rnd))

\* main.py:249-263 with the two for loops over the coordinates run in the
\* order given, from its i-th coordinate on
RECURSIVE war_in_order(_, _, _, _, _, _)
war_in_order(mem, grid, new_grid, rnd, order, i) ==
  IF i > Len(order) THEN mem
  ELSE Having(mem, war_in_order(war_cell(mem, grid, new_grid, rnd, order[i]),
                                grid, new_grid, rnd, order, i + 1))

\* main.py:248, then the loops in the order given
war_copy_in_order(n, grid, rnd, order) ==
  [mem |-> war_in_order(n.mem, grid, n.ret, rnd, order, 1), ret |-> n.ret]

\* main.py:242-264 with the coordinates visited in the order given
apply_war_rules_in_order(mem, grid, rnd, order) ==
  Having(mem, war_copy_in_order(NewList(mem, mem.lists[grid]), grid, rnd, order))

\* orders over the coordinates, by name: the order of the code backwards,
\* column by column, and the coordinates of even rank after those of odd
\* rank
ScanIn(name) ==
  IF name = "backwards"
  THEN [i \in DOMAIN ScanOrder |-> ScanOrder[Len(ScanOrder) + 1 - i]]
  ELSE IF name = "by_column"
  THEN [i \in DOMAIN ScanOrder |->
          <<(i - 1) % GRID_ROWS, (i - 1) \div GRID_ROWS>>]
  ELSE SelectSeq(ScanOrder, LAMBDA p : (p[1] * GRID_COLS + p[2]) % 2 = 1)
         \o SelectSeq(ScanOrder, LAMBDA p : (p[1] * GRID_COLS + p[2]) % 2 = 0)

ScanOrders == {"backwards", "by_column", "odd_first"}

\* the bug of a survival rule that lets a live cell survive with 3 neighbours
\* only
update_cell_survive3(mem, grid, new_grid, rnd, p) ==
  LET neighbors == count_neighbors(mem, grid, p[1], p[2]).count
      cur == mem.lists[grid][p]
  IN  IF cur # 0
      THEN SetItem(mem, new_grid, p, IF neighbors \in {3} THEN cur ELSE 0)
      ELSE IF neighbors = 3
           THEN store_new(NewDict(mem, rnd.birth[p]), new_grid, p)
           ELSE SetItem(mem, new_grid, p, 0)

\* the bug of a death written to the grid that is being read:
\* grid[r][c] = None
update_cell_in_place(mem, grid, new_grid, rnd, p) ==
  LET neighbors == count_neighbors(mem, grid, p[1], p[2]).count
      cur == mem.lists[grid][p]
  IN  IF cur # 0
      THEN IF neighbors \in {2, 3} THEN SetItem(mem, new_grid, p, cur)
           ELSE SetItem(mem, grid, p, 0)
      ELSE IF neighbors = 3
           THEN store_new(NewDict(mem, rnd.birth[p]), new_grid, p)
           ELSE SetItem(mem, new_grid, p, 0)

\* main.py:225-237, one (r, c) of update_logic
update_cell(mem, grid, new_grid, rnd, p) ==
  LET neighbors == count_neighbors(mem, grid, p[1], p[2]).count
      cur == mem.lists[grid][p]
  IN  IF cur # 0
      THEN SetItem(mem, new_grid, p, IF neighbors \in {2, 3} THEN cur ELSE 0)
      ELSE IF neighbors = 3
           THEN store_new(NewDict(mem, rnd.birth[p]), new_grid, p)
           ELSE SetItem(mem, new_grid, p, 0)

\* main.py:224-237  for c in range(GRID_COLS), from c on
RECURSIVE update_c(_, _, _, _, _, _)
update_c(mem, grid, new_grid, rnd, r, c) ==
  IF c >= GRID_COLS THEN mem
  ELSE Having(mem, update_c(update_cell(mem, grid, new_grid, rnd, <<r, c>>),
                            grid, new_grid, rnd, r, c + 1))

\* main.py:223-237  for r in range(GRID_ROWS), from r on
RECURSIVE update_r(_, _, _, _, _)
update_r(mem, grid, new_grid, rnd, r) ==
  IF r >= GRID_ROWS THEN mem
  ELSE Having(mem, update_r(update_c(mem, grid, new_grid, rnd, r, 0),
                            grid, new_grid, rnd, r + 1))

\* main.py:222-239: the loops on the grid n just created, then the war pass
update_new(n, grid, rnd) ==
  apply_war_rules(update_r(n.mem, grid, n.ret, rnd, 0), n.ret, rnd)

\* main.py:216-240
update_logic(mem, grid, rnd) ==
  Having(mem, update_new(create_grid(mem), grid, rnd))

\* one list whose live entries are the dicts 1, 2, ... in the order of live
LoadLive(g, live) ==
  Value([dicts |-> [i \in 1 .. Len(live) |-> g[live[i]]],
         lists |-> << [p \in Coords |->
                         IF g[p] = None THEN 0
                         ELSE CHOOSE i \in 1 .. Len(live) : live[i] = p] >>])

\* A grid of values as fresh objects: one list, and one dict per live cell
LoadGrid(g) == LoadLive(g, SelectSeq(ScanOrder, LAMBDA p : g[p] # None))

\* the values of the grid a call returned
ValueOfResult(r) == Having(r, ValueOf(r.mem, r.ret))

\* update_logic on a grid of values: the values of the grid it returns
StepGrid(g, rnd) == ValueOfResult(update_logic(LoadGrid(g), 1, rnd))

\* ---------------------------------------------------------------------------
\* main.py: MIDI files and their events
\* ---------------------------------------------------------------------------
\* One mido message: time is the delta to the previous message, already in ms
\* (msg.time * 1000)
Msg(ty, dt, ch, n, v) ==
  [type |-> ty, time |-> dt, channel |-> ch, note |-> n, velocity |-> v]

\* The .mid files of the working directory, in sorted order.  Note-on events
\* of a.mid at 0, 100, 250 and 400 ms; b.mid opens with a kick; c.mid has no
\* note message.
midi_files ==
  << << Msg("note_on", 0, 0, 60, 100), Msg("note_on", 100, 9, 38, 90),
        Msg("note_off", 50, 0, 60, 0), Msg("note_on", 100, 0, 72, 64),
        Msg("note_on", 50, 0, 60, 0), Msg("note_on", 100, 0, 108, 127) >>,
     << Msg("note_on", 0, 9, 36, 100), Msg("note_on", 100, 0, 21, 127) >>,
     << Msg("control_change", 0, 0, 7, 100), Msg("program_change", 50, 0, 1, 0) >> >>

\* main.py:116-119: (abs_time, msg) of every note_on with velocity > 0, the
\* messages from the k-th on, abs_time being the time before message k
RECURSIVE collect_events(_, _, _)
collect_events(mid, k, abs_time) ==
  IF k > Len(mid) THEN << >>
  ELSE LET t == abs_time + mid[k].time
           rest == collect_events(mid, k + 1, t)
       IN  IF mid[k].type = "note_on" /\ mid[k].velocity > 0
           THEN << [t |-> t, msg |-> mid[k], k |-> k] >> \o rest
           ELSE rest

\* the bug of a sort that puts the later event first
insert_by_time_desc(s, e) == << e >> \o s

\* e inserted into the sorted list s after every entry with the same time
RECURSIVE insert_by_time(_, _)
insert_by_time(s, e) ==
  IF s = << >> THEN << e >>
  ELSE IF e.t < Head(s).t THEN << e >> \o s
       ELSE << Head(s) >> \o insert_by_time(Tail(s), e)

\* main.py:120  events.sort(key=lambda x: x[0]), a stable sort
RECURSIVE sort_by_time(_, _)
sort_by_time(done, todo) ==
  IF todo = << >> THEN done
  ELSE sort_by_time(insert_by_time(done, Head(todo)), Tail(todo))

\* main.py:102-121
extract_midi_events(mid) == sort_by_time(<< >>, collect_events(mid, 1, 0))

\* main.py:419, 428, 457  [(t, msg) for (t, msg) in midi_events]: new tuples;
\* gen names the load that made them
fresh_pending(events, gen) ==
  [i \in 1 .. Len(events) |->
     [t |-> events[i].t, msg |-> events[i].msg, k |-> events[i].k, gen |-> gen]]

\* the bug of a default that plays nothing: a note outside the three lists
\* is silent
play_drum_no_default(note) ==
  IF note \in {35, 36} THEN "kick"
  ELSE IF note \in {38, 40} THEN "snare"
  ELSE IF note \in {42, 44, 46} THEN "hihat"
  ELSE "none"

\* main.py:292-300: the sample played
play_drum(note) ==
  IF note \in {35, 36} THEN "kick"
  ELSE IF note \in {38, 40} THEN "snare"
  ELSE IF note \in {42, 44, 46} THEN "hihat"
  ELSE "hihat"

\* main.py:188-191: the value of both grids afterwards
clear_board == [p \in Coords |-> None]

\* the bug of a scale of 0.5 + velocity / 63.5: above 1.5 for a velocity
\* above 63
add_piece_to_board_wide_scale(grid, note, velocity, attr) ==
  LET lo == IF note < max_note THEN note ELSE max_note
      clamped_note == IF min_note > lo THEN min_note ELSE lo
      col == ((clamped_note - min_note) * (GRID_COLS - 3)) \div (max_note - min_note)
      row == (velocity * (GRID_ROWS - 3)) \div 127
      new_cell == MkCell(attr.color, attr.offset, 127 + 4 * velocity)
  IN  Value([p \in Coords |->
               IF /\ p[1] - row \in 0 .. 2
                  /\ p[2] - col \in 0 .. 2
                  /\ InBounds(p[1], p[2])
               THEN new_cell ELSE grid[p]])

\* the bug of a note that is not clamped: the block of a note below min_note
\* starts left of the board
add_piece_to_board_unclamped(grid, note, velocity, attr) ==
  LET col == ((note - min_note) * (GRID_COLS - 3)) \div (max_note - min_note)
      row == (velocity * (GRID_ROWS - 3)) \div 127
      new_cell == MkCell(attr.color, attr.offset, 127 + 2 * velocity)
  IN  Value([p \in Coords |->
               IF /\ p[1] - row \in 0 .. 2
                  /\ p[2] - col \in 0 .. 2
                  /\ InBounds(p[1], p[2])
               THEN new_cell ELSE grid[p]])

\* main.py:305-329: current_grid afterwards
add_piece_to_board(grid, note, velocity, attr) ==
  LET lo == IF note < max_note THEN note ELSE max_note
      clamped_note == IF min_note > lo THEN min_note ELSE lo
      col == ((clamped_note - min_note) * (GRID_COLS - 3)) \div (max_note - min_note)
      row == (velocity * (GRID_ROWS - 3)) \div 127
      new_cell == MkCell(attr.color, attr.offset, 127 + 2 * velocity)
  IN  Value([p \in Coords |->
               IF /\ p[1] - row \in 0 .. 2
                  /\ p[2] - col \in 0 .. 2
                  /\ InBounds(p[1], p[2])
               THEN new_cell ELSE grid[p]])

\* the decisions of the pieces dispatched in one frame, in dispatch order: the
\* decision sources by name
PieceSource(name) ==
  [i \in Nat |->
     IF name = "b" \/ (name = "alternate" /\ i % 2 = 0)
     THEN [color |-> RGBA(5), offset |-> 50]
     ELSE [color |-> RGBA(1), offset |-> 0]]

PieceSources == {"a", "b", "alternate"}

\* main.py:376-384: boards the random seeding can give
SeedCell(p) ==
  MkCell(RGBA(1 + ((p[1] + 2 * p[2]) % 7)), (p[2] * 50 + p[1] * 20) % 100,
         127 + 127 * (p[1] % 3))

SeedPatterns ==
  { {<<0, 1>>, <<1, 1>>, <<2, 1>>},
    {<<0, 0>>, <<0, 1>>, <<1, 0>>, <<1, 1>>, <<2, 2>>} }

SeedGrids ==
  {[p \in Coords |-> IF p \in live THEN SeedCell(p) ELSE None] :
     live \in SeedPatterns}

\* pygame.time.Clock.tick(FPS): the milliseconds one frame may take
Ticks == {150, 350}

Keys == {"K_LEFT", "K_RIGHT", "K_SPACE", "K_ESCAPE"}

\* ---------------------------------------------------------------------------
\* cube.py: the 3D board.  A cell is None, written << >>, or a colour tuple;
\* a grid (list of lists of lists) is one entry of the sequence lists.
\* ---------------------------------------------------------------------------
\* cube.py:28-36
cube_ROYGBIV ==
  << <<255, 0, 0>>, <<255, 127, 0>>, <<255, 255, 0>>, <<0, 255, 0>>,
     <<0, 0, 255>>, <<75, 0, 130>>, <<148, 0, 211>> >>

CubeNone == << >>

CubeCoords ==
  (0 .. (CUBE_GRID_WIDTH - 1)) \X (0 .. (CUBE_GRID_DEPTH - 1))
    \X (0 .. (CUBE_GRID_HEIGHT - 1))



\* the live coordinates of a 3D grid
CubeAlive(g) == {p \in DOMAIN g : g[p] # CubeNone}

\* cube.py:50-51
cube_create_grid(lists) ==
  [lists |-> Append(lists, [p \in CubeCoords |-> CubeNone]), ret |-> Len(lists) + 1]

\* cube.py:101
cube_InBounds(nx, ny, nz) ==
  /\ 0 <= nx /\ nx < CUBE_GRID_WIDTH
  /\ 0 <= ny /\ ny < CUBE_GRID_DEPTH
  /\ 0 <= nz /\ nz < CUBE_GRID_HEIGHT

\* grid[nx][ny][nz] as Python evaluates it
cube_GetItem(lists, gid, nx, ny, nz) ==
  IF \/ PyIndex(nx, CUBE_GRID_WIDTH) < 0
     \/ PyIndex(ny, CUBE_GRID_DEPTH) < 0
     \/ PyIndex(nz, CUBE_GRID_HEIGHT) < 0
  THEN [raised |-> TRUE, val |-> CubeNone, at |-> <<nx, ny, nz>>]
  ELSE [raised |-> FALSE,
        val |-> lists[gid][<<PyIndex(nx, CUBE_GRID_WIDTH),
                             PyIndex(ny, CUBE_GRID_DEPTH),
                             PyIndex(nz, CUBE_GRID_HEIGHT)>>],
        at |-> <<nx, ny, nz>>]

\* cube.py:101-103: what the subscript grid[nx][ny][nz] gave, x, does to the
\* count
cube_count_one(acc, x) ==
  [count  |-> IF ~x.raised /\ x.val # CubeNone THEN acc.count + 1 ELSE acc.count,
   raised |-> x.raised,
   reads  |-> acc.reads \cup {x.at}]

\* cube.py:100-103: nx, ny, nz = x + dx, y + dy, z + dz and the test of 101
cube_count_at(lists, gid, nx, ny, nz, acc) ==
  IF cube_InBounds(nx, ny, nz)
  THEN cube_count_one(acc, cube_GetItem(lists, gid, nx, ny, nz))
  ELSE acc

\* cube.py:97-103  for dz in [-1, 0, 1], from the k-th dz on
RECURSIVE cube_count_dz(_, _, _, _, _, _, _)
cube_count_dz(lists, gid, p, dx, dy, k, acc) ==
  IF k > Len(Deltas) \/ acc.raised THEN acc
  ELSE cube_count_dz(lists, gid, p, dx, dy, k + 1,
                     IF dx = 0 /\ dy = 0 /\ Deltas[k] = 0 THEN acc
                     ELSE cube_count_at(lists, gid, p[1] + dx, p[2] + dy,
                                        p[3] + Deltas[k], acc))

\* cube.py:96-103  for dy in [-1, 0, 1], from the j-th dy on
RECURSIVE cube_count_dy(_, _, _, _, _, _)
cube_count_dy(lists, gid, p, dx, j, acc) ==
  IF j > Len(Deltas) \/ acc.raised THEN acc
  ELSE cube_count_dy(lists, gid, p, dx, j + 1,
                     cube_count_dz(lists, gid, p, dx, Deltas[j], 1, acc))

\* cube.py:95-103  for dx in [-1, 0, 1], from the i-th dx on
RECURSIVE cube_count_dx(_, _, _, _, _)
cube_count_dx(lists, gid, p, i, acc) ==
  IF i > Len(Deltas) \/ acc.raised THEN acc
  ELSE cube_count_dx(lists, gid, p, i + 1,
                     cube_count_dy(lists, gid, p, Deltas[i], 1, acc))

\* cube.py:93-104
cube_count_neighbors(lists, gid, p) ==
  cube_count_dx(lists, gid, p, 1, [count |-> 0, raised |-> FALSE, reads |-> {}])

\* the bug of a survival test that also lets a cell with 4 live neighbours
\* live
cube_update_cell_survive4(st, old_grid, new_grid, rnd, p) ==
  LET neighbors == cube_count_neighbors(st.lists, old_grid, p).count
      cur == st.lists[old_grid][p]
  IN  IF cur # CubeNone
      THEN [st EXCEPT !.lists[new_grid][p] =
                         IF neighbors \in SURVIVE_COUNTS \cup {4} THEN cur
                         ELSE CubeNone]
      ELSE IF neighbors = BIRTH_COUNT
           THEN [lists  |-> [st.lists EXCEPT ![new_grid][p] = cube_ROYGBIV[rnd[p]]],
                 played |-> st.played + 1]
           ELSE [st EXCEPT !.lists[new_grid][p] = CubeNone]

\* cube.py:112-125, one (x, y, z) of update_grid; st.played counts the notes
\* play_random_pentatonic has played
cube_update_cell(st, old_grid, new_grid, rnd, p) ==
  LET neighbors == cube_count_neighbors(st.lists, old_grid, p).count
      cur == st.lists[old_grid][p]
  IN  IF cur # CubeNone
      THEN [st EXCEPT !.lists[new_grid][p] =
                         IF neighbors \in SURVIVE_COUNTS THEN cur ELSE CubeNone]
      ELSE IF neighbors = BIRTH_COUNT
           THEN [lists  |-> [st.lists EXCEPT ![new_grid][p] = cube_ROYGBIV[rnd[p]]],
                 played |-> st.played + 1]
           ELSE [st EXCEPT !.lists[new_grid][p] = CubeNone]

\* cube.py:111-125  for z in range(GRID_HEIGHT), from z on
RECURSIVE cube_update_z(_, _, _, _, _, _, _)
cube_update_z(st, old_grid, new_grid, rnd, x, y, z) ==
  IF z >= CUBE_GRID_HEIGHT THEN st
  ELSE Having(st, cube_update_z(cube_update_cell(st, old_grid, new_grid, rnd,
                                                 <<x, y, z>>),
                                old_grid, new_grid, rnd, x, y, z + 1))

\* cube.py:110-125  for y in range(GRID_DEPTH), from y on
RECURSIVE cube_update_y(_, _, _, _, _, _)
cube_update_y(st, old_grid, new_grid, rnd, x, y) ==
  IF y >= CUBE_GRID_DEPTH THEN st
  ELSE Having(st, cube_update_y(cube_update_z(st, old_grid, new_grid, rnd, x, y, 0),
                                old_grid, new_grid, rnd, x, y + 1))

\* cube.py:109-125  for x in range(GRID_WIDTH), from x on
RECURSIVE cube_update_x(_, _, _, _, _)
cube_update_x(st, old_grid, new_grid, rnd, x) ==
  IF x >= CUBE_GRID_WIDTH THEN st
  ELSE Having(st, cube_update_x(cube_update_y(st, old_grid, new_grid, rnd, x, 0),
                                old_grid, new_grid, rnd, x + 1))

\* cube.py:126  return new_grid
cube_return(st, new_grid) ==
  [lists |-> st.lists, ret |-> new_grid, played |-> st.played]

\* cube.py:108-126: the loops on the grid n just created
cube_update_new(n, old_grid, rnd) ==
  cube_return(cube_update_x([lists |-> n.lists, played |-> 0],
                            old_grid, n.ret, rnd, 0), n.ret)

\* cube.py:106-126
cube_update_grid(lists, old_grid, rnd) ==
  Having(lists, cube_update_new(cube_create_grid(lists), old_grid, rnd))

\* what random.choice(ROYGBIV) returns for a birth at p, an index: the
\* decision sources by name
CubeSource(name) ==
  [p \in CubeCoords |->
     IF name = "red" THEN 1
     ELSE IF name = "blue" THEN 5
     ELSE 1 + ((p[1] + p[2] + p[3]) % 7)]

CubeSources == {"red", "blue", "mixed"}

\* cube.py:56-60: boards the random seeding can give
CubeSeedColor(p) == cube_ROYGBIV[1 + ((p[1] + 2 * p[2] + 3 * p[3]) % 7)]

CubeBlock == {p \in CubeCoords : p[1] <= 1 /\ p[2] <= 1 /\ p[3] <= 1}

CubeSeedPatterns ==
  { CubeBlock \ {<<0, 0, 0>>, <<1, 1, 1>>}, CubeBlock, CubeCoords,
    {<<0, 0, 0>>} }

CubeSeedGrids ==
  {[p \in CubeCoords |-> IF p \in live THEN CubeSeedColor(p) ELSE CubeNone] :
     live \in CubeSeedPatterns}

\* ---------------------------------------------------------------------------
\* hybrid.py: the wrapping board.  self.grid is a numpy array of shape
\* (GRID_HEIGHT, GRID_WIDTH, 3); a cell is its three channels, and it is live
\* when any of them is not 0.
\* ---------------------------------------------------------------------------
HybDead == <<0, 0, 0>>

HybCoords == (0 .. (HYB_GRID_HEIGHT - 1)) \X (0 .. (HYB_GRID_WIDTH - 1))

\* any(color)
hyb_any(color) == \E i \in DOMAIN color : color[i] # 0

\* the live coordinates of a board of hybrid.py
HybAlive(g) == {p \in DOMAIN g : hyb_any(g[p])}

\* Python's a % n for n > 0: never negative
PyMod(a, n) == a % n

\* self.grid[nx, ny] as numpy evaluates it: IndexError past the end,
\* wrap-around for a negative index
hyb_GetItem(grid, nx, ny) ==
  IF PyIndex(nx, HYB_GRID_HEIGHT) < 0 \/ PyIndex(ny, HYB_GRID_WIDTH) < 0
  THEN [raised |-> TRUE, val |-> HybDead, at |-> <<nx, ny>>]
  ELSE [raised |-> FALSE,
        val |-> grid[<<PyIndex(nx, HYB_GRID_HEIGHT), PyIndex(ny, HYB_GRID_WIDTH)>>],
        at |-> <<nx, ny>>]

\* the bug of a coordinate that is not wrapped: nx, ny = x + dx, y + dy
hyb_wrap_none(x, y, dx, dy) == <<x + dx, y + dy>>

\* hybrid.py:152  nx, ny = (x + dx) % GRID_HEIGHT, (y + dy) % GRID_WIDTH
hyb_wrap(x, y, dx, dy) ==
  <<PyMod(x + dx, HYB_GRID_HEIGHT), PyMod(y + dy, HYB_GRID_WIDTH)>>

\* hybrid.py:153-154: what the subscript self.grid[nx, ny] gave, v, does to
\* the count.  acc.reads collects the index pairs the code subscripts the
\* grid with, acc.tests counts the subscripts
hyb_count_one(acc, v) ==
  [count  |-> IF ~v.raised /\ hyb_any(v.val) THEN acc.count + 1 ELSE acc.count,
   raised |-> v.raised,
   reads  |-> acc.reads \cup {v.at},
   tests  |-> acc.tests + 1]

\* hybrid.py:152-154 for the neighbour at n
hyb_count_at(grid, n, acc) == hyb_count_one(acc, hyb_GetItem(grid, n[1], n[2]))

\* hybrid.py:149-154  for dy in [-1, 0, 1], from the j-th dy on
RECURSIVE hyb_count_dy(_, _, _, _, _, _)
hyb_count_dy(grid, x, y, dx, j, acc) ==
  IF j > Len(Deltas) \/ acc.raised THEN acc
  ELSE hyb_count_dy(grid, x, y, dx, j + 1,
                    IF dx = 0 /\ Deltas[j] = 0 THEN acc
                    ELSE hyb_count_at(grid, hyb_wrap(x, y, dx, Deltas[j]), acc))

\* hybrid.py:148-154  for dx in [-1, 0, 1], from the i-th dx on
RECURSIVE hyb_count_dx(_, _, _, _, _)
hyb_count_dx(grid, x, y, i, acc) ==
  IF i > Len(Deltas) \/ acc.raised THEN acc
  ELSE hyb_count_dx(grid, x, y, i + 1, hyb_count_dy(grid, x, y, Deltas[i], 1, acc))

\* hybrid.py:145-155
hyb_count_neighbors(grid, x, y) ==
  hyb_count_dx(grid, x, y, 1,
               [count |-> 0, raised |-> FALSE, reads |-> {}, tests |-> 0])

\* hybrid.py:158  np.zeros((GRID_HEIGHT, GRID_WIDTH, 3), dtype=int)
hyb_zeros == [p \in HybCoords |-> HybDead]

\* one assignment to new_grid: the cell the scan is at, the coordinate
\* written and the colour
hyb_write(st, kind, src, dst, color) ==
  [new_grid |-> [st.new_grid EXCEPT ![dst] = color],
   writes   |-> Append(st.writes, [kind |-> kind, src |-> src, dst |-> dst,
                                   color |-> color])]

\* the bug of a survival test that lets a cell with 4 live neighbours die
hyb_update_cell_survive3(st, grid, rnd, x, y) ==
  LET neighbors == hyb_count_neighbors(grid, x, y).count
  IN  IF hyb_any(grid[<<x, y>>])
      THEN IF 2 <= neighbors /\ neighbors <= 3
           THEN hyb_write(st, "survive", <<x, y>>, <<x, y>>, grid[<<x, y>>])
           ELSE IF neighbors = 5
                THEN hyb_write(st, "drift", <<x, y>>, hyb_wrap(x, y, 1, 1),
                               grid[<<x, y>>])
                ELSE st
      ELSE IF neighbors = 3 \/ neighbors = 6
           THEN hyb_write(st, "birth", <<x, y>>, <<x, y>>,
                          cube_ROYGBIV[rnd[<<x, y>>]])
           ELSE st

\* the bug of a write that leaves a coordinate already written as it is
hyb_update_cell_first_wins(st, grid, rnd, x, y) ==
  LET neighbors == hyb_count_neighbors(grid, x, y).count
      free(dst) == \A n \in DOMAIN st.writes : st.writes[n].dst # dst
  IN  IF hyb_any(grid[<<x, y>>])
      THEN IF 2 <= neighbors /\ neighbors <= 4
           THEN IF free(<<x, y>>)
                THEN hyb_write(st, "survive", <<x, y>>, <<x, y>>, grid[<<x, y>>])
                ELSE st
           ELSE IF neighbors = 5
                THEN IF free(hyb_wrap(x, y, 1, 1))
                     THEN hyb_write(st, "drift", <<x, y>>, hyb_wrap(x, y, 1, 1),
                                    grid[<<x, y>>])
                     ELSE st
                ELSE st
      ELSE IF neighbors = 3 \/ neighbors = 6
           THEN IF free(<<x, y>>)
                THEN hyb_write(st, "birth", <<x, y>>, <<x, y>>,
                               cube_ROYGBIV[rnd[<<x, y>>]])
                ELSE st
           ELSE st

\* the bug of an else branch that assigns zeros, as the else branches of
\* cube.py assign None: a coordinate scanned after a cell moved onto it is
\* cleared
hyb_update_cell_clearing(st, grid, rnd, x, y) ==
  LET neighbors == hyb_count_neighbors(grid, x, y).count
  IN  IF hyb_any(grid[<<x, y>>])
      THEN IF 2 <= neighbors /\ neighbors <= 4
           THEN hyb_write(st, "survive", <<x, y>>, <<x, y>>, grid[<<x, y>>])
           ELSE IF neighbors = 5
                THEN hyb_write(st, "drift", <<x, y>>, hyb_wrap(x, y, 1, 1),
                               grid[<<x, y>>])
                ELSE hyb_write(st, "clear", <<x, y>>, <<x, y>>, HybDead)
      ELSE IF neighbors = 3 \/ neighbors = 6
           THEN hyb_write(st, "birth", <<x, y>>, <<x, y>>,
                          cube_ROYGBIV[rnd[<<x, y>>]])
           ELSE hyb_write(st, "clear", <<x, y>>, <<x, y>>, HybDead)

\* hybrid.py:161-170, one (x, y) of update_grid; st is new_grid and the
\* assignments made to it so far
hyb_update_cell(st, grid, rnd, x, y) ==
  LET neighbors == hyb_count_neighbors(grid, x, y).count
  IN  IF hyb_any(grid[<<x, y>>])
      THEN IF 2 <= neighbors /\ neighbors <= 4
           THEN hyb_write(st, "survive", <<x, y>>, <<x, y>>, grid[<<x, y>>])
           ELSE IF neighbors = 5
                THEN hyb_write(st, "drift", <<x, y>>, hyb_wrap(x, y, 1, 1),
                               grid[<<x, y>>])
                ELSE st
      ELSE IF neighbors = 3 \/ neighbors = 6
           THEN hyb_write(st, "birth", <<x, y>>, <<x, y>>,
                          cube_ROYGBIV[rnd[<<x, y>>]])
           ELSE st

\* hybrid.py:159-170: the two for loops, from the i-th cell of the row-major
\* scan on
RECURSIVE hyb_update_from(_, _, _, _)
hyb_update_from(st, grid, rnd, i) ==
  IF i >= HYB_GRID_HEIGHT * HYB_GRID_WIDTH THEN st
  ELSE hyb_update_from(hyb_update_cell(st, grid, rnd, i \div HYB_GRID_WIDTH,
                                       i % HYB_GRID_WIDTH),
                       grid, rnd, i + 1)

\* hybrid.py:157-171  update_grid, self.grid being grid: the new self.grid
hyb_update_grid(grid, rnd) ==
  hyb_update_from([new_grid |-> hyb_zeros, writes |-> << >>], grid, rnd, 0)

\* what random.choice(ROYGBIV) returns for a birth at p, by name
HybSource(name) ==
  [p \in HybCoords |-> IF name = "red" THEN 1 ELSE 1 + ((p[1] + p[2]) % 7)]

HybSources == {"red", "mixed"}

\* hybrid.py:80-84: the colours of the cells init_grid makes live
HybSeedColor(p) == cube_ROYGBIV[1 + ((p[1] + 2 * p[2]) % 7)]

\* ---------------------------------------------------------------------------
\* main.py: lerp_color, lerp_cell and the cell draw_interpolated_grid draws.
\* t is the float n / d.  fp names what the float arithmetic of one call
\* does where it is not exact: "exact" gives the exact value; "below" gives,
\* where t is not a dyadic fraction and the exact value is an integer, a float
\* just below it, which int() truncates to the integer before.
\* ---------------------------------------------------------------------------
FpSources == {"exact", "below"}

\* n / d is a float without rounding
Dyadic(n, d) == (n * 1024) % d = 0

\* the bug of the two colours taken in the wrong order:
\* int(c2[i] + (c1[i] - c2[i]) * t)
lerp_channel_swapped(a, b, n, d, fp) ==
  IF fp = "below" /\ ~Dyadic(n, d) /\ ((a - b) * n) % d = 0 /\ a # b
  THEN ((b * d + (a - b) * n) \div d) - 1
  ELSE (b * d + (a - b) * n) \div d

\* main.py:75  int(c1[i] + (c2[i] - c1[i]) * t), for channels >= 0
lerp_channel(a, b, n, d, fp) ==
  IF fp = "below" /\ ~Dyadic(n, d) /\ ((b - a) * n) % d = 0 /\ a # b
  THEN ((a * d + (b - a) * n) \div d) - 1
  ELSE (a * d + (b - a) * n) \div d

\* main.py:71-75
lerp_color(c1, c2, n, d, fp) ==
  [i \in 1 .. 4 |-> lerp_channel(c1[i], c2[i], n, d, fp)]

\* cell["color"]: TypeError when cell is None
color_of(cell) ==
  IF cell = None THEN [raised |-> TRUE, val |-> << >>]
  ELSE [raised |-> FALSE, val |-> cell.color]

\* main.py:89-90, with the subscripts of line 89 evaluated to k1 and k2
lerp_both(cell1, k1, k2, n, d, fp) ==
  IF k1.raised \/ k2.raised THEN [raised |-> TRUE, val |-> None]
  ELSE [raised |-> FALSE,
        val |-> [color |-> lerp_color(k1.val, k2.val, n, d, fp),
                 offset |-> cell1.offset, scale |-> cell1.scale]]

\* the bug of a blend that takes offset and scale from cell2
lerp_cell_attributes_of_second(cell1, cell2, n, d, fp) ==
  IF cell1 = None /\ cell2 = None THEN [raised |-> FALSE, val |-> None]
  ELSE IF cell1 = None THEN [raised |-> FALSE, val |-> cell2]
  ELSE IF cell2 = None THEN [raised |-> FALSE, val |-> cell1]
  ELSE lerp_both(cell2, color_of(cell1), color_of(cell2), n, d, fp)

\* the bug of a lerp_cell without the test of line 87:
\* if cell2 is None: return cell1
lerp_cell_no_test(cell1, cell2, n, d, fp) ==
  IF cell1 = None /\ cell2 = None THEN [raised |-> FALSE, val |-> None]
  ELSE IF cell1 = None THEN [raised |-> FALSE, val |-> cell2]
  ELSE lerp_both(cell1, color_of(cell1), color_of(cell2), n, d, fp)

\* main.py:77-90
lerp_cell(cell1, cell2, n, d, fp) ==
  IF cell1 = None /\ cell2 = None THEN [raised |-> FALSE, val |-> None]
  ELSE IF cell1 = None THEN [raised |-> FALSE, val |-> cell2]
  ELSE IF cell2 = None THEN [raised |-> FALSE, val |-> cell1]
  ELSE lerp_both(cell1, color_of(cell1), color_of(cell2), n, d, fp)

\* main.py:340-346: effective_cell of draw_interpolated_grid
effective_cell(cell_current, cell_target, n, d, fp) ==
  IF cell_current # None /\ cell_target # None
  THEN lerp_cell(cell_current, cell_target, n, d, fp)
  ELSE [raised |-> FALSE,
        val |-> IF cell_current # None THEN cell_current ELSE cell_target]

\* cells to blend: the cells the program makes, of the colours of ROYGBIV
\* with alpha 255, and cells of other colours with channels in 0 .. 255
LerpCells ==
  {MkCell(RGBA(i), (i * 30) % 100, 127 + 127 * (i % 3)) : i \in 1 .. 7}
    \cup {MkCell(<<0, 0, 0, 0>>, 10, 254), MkCell(<<255, 255, 255, 255>>, 90, 127),
          MkCell(<<0, 128, 255, 128>>, 50, 381)}

\* ---------------------------------------------------------------------------
\* main.py: pitch_shift.  A sample is a sequence of frames, a frame a tuple
\* of one int16 value per channel (the array of shape (L, 2) of a stereo
\* mixer).  factor is the float fn / fd with fd a power of two, as every
\* float is; with the small numbers here the float arithmetic is exact.
\* ---------------------------------------------------------------------------
\* astype(int16) of the float x / d: the fraction is cut off, towards zero
astype_int(x, d) == IF x >= 0 THEN x \div d ELSE -((-x) \div d)

\* np.interp(x, np.arange(L), fp) at x = xn / xd >= 0, times xd: the line
\* between the two samples around x, and fp[-1] from L - 1 on.  fp is
\* 1-based here
np_interp(xn, xd, fp) ==
  IF xn >= (Len(fp) - 1) * xd THEN fp[Len(fp)] * xd
  ELSE fp[(xn \div xd) + 1] * xd
         + (fp[(xn \div xd) + 2] - fp[(xn \div xd) + 1]) * (xn % xd)

\* main.py:274: one value of new_array[:, channel]
shifted_value(sound_array, channel, k, fn, fd) ==
  astype_int(np_interp(k * fn, fd,
                       [i \in DOMAIN sound_array |-> sound_array[i][channel]]),
             fd)

\* the bug of a length multiplied by the factor: int(len(sound_array) * factor)
num_samples_times(L, fn, fd) == (L * fn) \div fd

\* main.py:270  int(len(sound_array) / factor)
num_samples_of(L, fn, fd) == (L * fd) \div fn

\* main.py:269-275.  np.interp raises ValueError when sound_array has no
\* frame (array of sample points is empty)
pitch_shift(sound_array, fn, fd) ==
  IF Len(sound_array) = 0
  THEN [raised |-> TRUE, ret |-> << >>]
  ELSE [raised |-> FALSE,
        ret |-> [k \in 1 .. num_samples_of(Len(sound_array), fn, fd) |->
                   [channel \in 1 .. 2 |->
                      shifted_value(sound_array, channel, k - 1, fn, fd)]]]

\* frames of a stereo sample
SampleFrames == {<<-3, 4>>, <<0, -1>>, <<5, 2>>}

\* samples of up to MaxSampleLen frames
Samples == UNION {[1 .. L -> SampleFrames] : L \in 0 .. MaxSampleLen}

\* factors fn / fd: 1/2, 3/4, 1, 3/2, 2, 3
PitchFactors == {<<1, 2>>, <<3, 4>>, <<1, 1>>, <<3, 2>>, <<2, 1>>, <<3, 1>>}

\* ---------------------------------------------------------------------------
\* State
\* ---------------------------------------------------------------------------
VARIABLES
  prog,                 \* the program that runs: "main", "cube", "panda", ...
  pc,                   \* main.py: where main() is in its frame
  clock,                \* pygame.time.get_ticks()
  start_time,           \* main.py:362
  current_play_time,    \* main.py:397
  current_midi_index,   \* main.py:125
  pending_midi_events,  \* main.py:390
  paused,               \* main.py:372
  running,              \* main.py:371
  arrow_key_pressed,    \* main.py:393
  current_grid,         \* main.py:184
  target_grid,          \* main.py:185
  transition_counter,   \* main.py:361
  obs,                  \* what the running frame has done so far (history)
  cube_pc,              \* cube.py: where main() is in its frame
  cube_grid,            \* cube.py:53 grid
  cube_paused,          \* cube.py:200
  cube_running,         \* cube.py:199
  cube_obs,             \* cube.py: what the running frame has done (history)
  panda_midi,           \* panda.py:15 the file given to MidiVisualizer
  panda_clock,          \* panda.py: ClockObject.get_real_time()
  panda_start_time,     \* panda.py:31
  event_index,          \* panda.py:30
  active_notes,         \* panda.py:26
  panda_obs,            \* panda.py: what the last update_scene did (history)
  game_midi,            \* game.py:71 midi_filename
  game_time,            \* game.py: task.time * 1000 of the update task
  game_grid,            \* game.py:111 self.grid, the colour of every cell
  game_obs,             \* game.py: what the update task has done (history)
  call                  \* a single call of a function: its input and result

mainVars ==
  <<pc, clock, start_time, current_play_time, current_midi_index,
    pending_midi_events, paused, running, arrow_key_pressed, current_grid,
    target_grid, transition_counter, obs>>

cubeVars == <<cube_pc, cube_grid, cube_paused, cube_running, cube_obs>>

pandaVars ==
  <<panda_midi, panda_clock, panda_start_time, event_index, active_notes,
    panda_obs>>

gameVars == <<game_midi, game_time, game_grid, game_obs>>

vars == <<prog, mainVars, cubeVars, pandaVars, gameVars, call>>

\* the state of everything but main.py
notMain == <<cubeVars, pandaVars, gameVars, call>>
\* the state of everything but cube.py
notCube == <<mainVars, pandaVars, gameVars, call>>
\* the state of everything but panda.py
notPanda == <<mainVars, cubeVars, gameVars, call>>
\* the state of everything but game.py
notGame == <<mainVars, cubeVars, pandaVars, call>>
\* the state of every program
notCall == <<mainVars, cubeVars, pandaVars, gameVars>>

\* midi_events, the global of main.py:128, 417, 426, 455
midi_events == extract_midi_events(midi_files[current_midi_index + 1])

\* obs at the top of a frame
NewFrame(o) ==
  [o EXCEPT !.polled = 0, !.dispatched = << >>, !.sounds = << >>,
            !.change = "none", !.update_calls = 0, !.entry = << >>,
            !.t = <<0, TRANSITION_FRAMES>>]

\* main.py:150-155: the files pygame.mixer.Sound is given
SampleFiles == {"kick.wav", "snare.wav", "hihat.wav", "note.wav"}

\* main.py:146-156: the sound setup at module level, with the files present
\* in the working directory: pygame.mixer.Sound raises for a file that is
\* not there, and nothing catches it
sound_setup(present) ==
  IF SampleFiles \subseteq present THEN "loaded" ELSE "raised"

\* main.py:388-393, after the seeding of 375-386
MainInit ==
  /\ prog = "main"
  /\ pc = "tick"
  /\ start_time = 0
  /\ clock \in {0, 50}
  /\ current_play_time = clock - start_time
  /\ current_midi_index = 0
  /\ pending_midi_events =
       fresh_pending(SelectSeq(extract_midi_events(midi_files[1]),
                               LAMBDA e : e.t >= clock - start_time), 0)
  /\ paused = FALSE
  /\ running = TRUE
  /\ arrow_key_pressed = [k \in {"K_LEFT", "K_RIGHT"} |-> FALSE]
  /\ current_grid \in SeedGrids
  /\ target_grid = current_grid
  /\ transition_counter = 0
  /\ obs = [polled |-> 0, dispatched |-> << >>, sounds |-> << >>,
            change |-> "none", update_calls |-> 0, entry |-> << >>,
            delivered |-> << >>, loads |-> 0, committed |-> FALSE,
            unpaused |-> 0, t |-> <<0, TRANSITION_FRAMES>>]

\* the bug of a load that leaves start_time as it was
LoadTimelineNoAnchor(newIndex, how) ==
  /\ current_grid' = clear_board
  /\ target_grid' = clear_board
  /\ current_midi_index' = newIndex
  /\ start_time' = start_time
  /\ pending_midi_events' =
       fresh_pending(extract_midi_events(midi_files[newIndex + 1]), obs.loads + 1)
  /\ obs' = [obs EXCEPT !.polled = IF how = "auto" THEN @ ELSE @ + 1,
                        !.change = how, !.loads = @ + 1, !.delivered = << >>]

\* the bug of a load that extends the queue instead of replacing it
LoadTimelineKeeping(newIndex, how) ==
  /\ current_grid' = clear_board
  /\ target_grid' = clear_board
  /\ current_midi_index' = newIndex
  /\ start_time' = clock
  /\ pending_midi_events' =
       pending_midi_events
         \o fresh_pending(extract_midi_events(midi_files[newIndex + 1]), obs.loads + 1)
  /\ obs' = [obs EXCEPT !.polled = IF how = "auto" THEN @ ELSE @ + 1,
                        !.change = how, !.loads = @ + 1, !.delivered = << >>]

\* ---------------------------------------------------------------------------
\* main.py: main(), one action per block of the frame loop
\* ---------------------------------------------------------------------------
\* main.py:413-419, 422-428, 451-457: clear the board and load file newIndex
LoadTimeline(newIndex, how) ==
  /\ current_grid' = clear_board
  /\ target_grid' = clear_board
  /\ current_midi_index' = newIndex
  /\ start_time' = clock
  /\ pending_midi_events' =
       fresh_pending(extract_midi_events(midi_files[newIndex + 1]), obs.loads + 1)
  /\ obs' = [obs EXCEPT !.polled = IF how = "auto" THEN @ ELSE @ + 1,
                        !.change = how, !.loads = @ + 1, !.delivered = << >>]

\* main.py:395-397: the loop test, clock.tick(FPS) and the playback time
Tick ==
  /\ prog = "main" /\ pc = "tick" /\ running
  /\ \E dt \in Ticks :
       /\ clock + dt <= MaxClock
       /\ clock' = clock + dt
  /\ current_play_time' = clock' - start_time
  /\ pc' = "events"
  /\ obs' = NewFrame(obs)
  /\ UNCHANGED <<prog, notMain, start_time, current_midi_index, pending_midi_events,
                 paused, running, arrow_key_pressed, current_grid, target_grid,
                 transition_counter>>

\* main.py:395, 478-479: the loop ends
Exit ==
  /\ prog = "main" /\ pc = "tick" /\ ~running
  /\ pc' = "done"
  /\ UNCHANGED <<prog, notMain, clock, start_time, current_play_time, current_midi_index,
                 pending_midi_events, paused, running, arrow_key_pressed,
                 current_grid, target_grid, transition_counter, obs>>

\* main.py:400-401
QuitEvent ==
  /\ prog = "main" /\ pc = "events" /\ obs.polled < MaxFrameEvents
  /\ running' = FALSE
  /\ obs' = [obs EXCEPT !.polled = @ + 1]
  /\ UNCHANGED <<prog, notMain, pc, clock, start_time, current_play_time,
                 current_midi_index, pending_midi_events, paused,
                 arrow_key_pressed, current_grid, target_grid,
                 transition_counter>>

\* main.py:403-432
KeyDown(key) ==
  /\ prog = "main" /\ pc = "events" /\ obs.polled < MaxFrameEvents
  /\ IF key \in DOMAIN arrow_key_pressed /\ ~arrow_key_pressed[key]
     THEN /\ arrow_key_pressed' = [arrow_key_pressed EXCEPT ![key] = TRUE]
          /\ IF key = "K_RIGHT"
             THEN LoadTimeline((current_midi_index + 1) % Len(midi_files), "right")
             ELSE LoadTimeline((current_midi_index - 1) % Len(midi_files), "left")
          /\ UNCHANGED <<paused, running>>
     ELSE /\ paused' = IF key = "K_SPACE" THEN ~paused ELSE paused
          /\ running' = IF key = "K_ESCAPE" THEN FALSE
                        ELSE running
          /\ obs' = [obs EXCEPT !.polled = @ + 1]
          /\ UNCHANGED <<arrow_key_pressed, current_grid, target_grid,
                         current_midi_index, start_time, pending_midi_events>>
  /\ UNCHANGED <<prog, notMain, pc, clock, current_play_time, transition_counter>>

\* main.py:434-436
KeyUp(key) ==
  /\ prog = "main" /\ pc = "events" /\ obs.polled < MaxFrameEvents
  /\ arrow_key_pressed' =
       IF key \in DOMAIN arrow_key_pressed
       THEN [arrow_key_pressed EXCEPT ![key] = FALSE]
       ELSE arrow_key_pressed
  /\ obs' = [obs EXCEPT !.polled = @ + 1]
  /\ UNCHANGED <<prog, notMain, pc, clock, start_time, current_play_time,
                 current_midi_index, pending_midi_events, paused, running,
                 current_grid, target_grid, transition_counter>>

\* main.py:399: pygame.event.get() has no further event
EndEvents ==
  /\ prog = "main" /\ pc = "events"
  /\ pc' = "dispatch"
  /\ obs' = [obs EXCEPT !.polled = 0]
  /\ UNCHANGED <<prog, notMain, clock, start_time, current_play_time, current_midi_index,
                 pending_midi_events, paused, running, arrow_key_pressed,
                 current_grid, target_grid, transition_counter>>

\* main.py:441-447: the sound one popped event triggers
sound_of(msg) ==
  IF msg.channel = DRUM_CHANNEL
  THEN [kind |-> "drum", sample |-> play_drum(msg.note)]
  ELSE [kind |-> "note", note |-> msg.note, velocity |-> msg.velocity]

\* main.py:440-447: the body of the while loop for the popped event e
dispatch_one(st, e, prnd) ==
  [pending    |-> Tail(st.pending),
   grid       |-> IF e.msg.channel = DRUM_CHANNEL THEN st.grid
                  ELSE add_piece_to_board(st.grid, e.msg.note, e.msg.velocity,
                                          prnd[Len(st.dispatched) + 1]),
   dispatched |-> Append(st.dispatched, e),
   sounds     |-> Append(st.sounds, sound_of(e.msg))]

\* the bug of a loop test with < for <=: an event due exactly now waits
RECURSIVE dispatch_loop_strict(_, _, _)
dispatch_loop_strict(st, T, prnd) ==
  IF st.pending # << >> /\ Head(st.pending).t < T
  THEN dispatch_loop_strict(dispatch_one(st, Head(st.pending), prnd), T, prnd)
  ELSE st

\* main.py:439-447: the while loop; st is the queue, the board and what has
\* been dispatched so far
RECURSIVE dispatch_loop(_, _, _)
dispatch_loop(st, T, prnd) ==
  IF st.pending # << >> /\ Head(st.pending).t <= T
  THEN dispatch_loop(dispatch_one(st, Head(st.pending), prnd), T, prnd)
  ELSE st

\* the bug of a dispatch loop that a pause holds back: while not paused and
\* pending_midi_events and ...
DispatchUnlessPaused ==
  /\ prog = "main" /\ pc = "dispatch"
  /\ \E prnd \in PieceSources :
       \E r \in {IF paused
                 THEN [pending |-> pending_midi_events, grid |-> current_grid,
                       dispatched |-> << >>, sounds |-> << >>]
                 ELSE dispatch_loop([pending |-> pending_midi_events,
                                     grid |-> current_grid,
                                     dispatched |-> << >>, sounds |-> << >>],
                                    current_play_time, PieceSource(prnd))} :
           /\ pending_midi_events' = r.pending
           /\ current_grid' = r.grid
           /\ obs' = [obs EXCEPT !.entry = pending_midi_events,
                                 !.dispatched = r.dispatched,
                                 !.sounds = r.sounds,
                                 !.delivered = @ \o r.dispatched]
  /\ pc' = "advance"
  /\ UNCHANGED <<prog, notMain, clock, start_time, current_play_time, current_midi_index,
                 paused, running, arrow_key_pressed, target_grid,
                 transition_counter>>

\* main.py:438-447
Dispatch ==
  /\ prog = "main" /\ pc = "dispatch"
  /\ \E prnd \in PieceSources :
       \E r \in {dispatch_loop([pending |-> pending_midi_events,
                                grid |-> current_grid,
                                dispatched |-> << >>, sounds |-> << >>],
                               current_play_time, PieceSource(prnd))} :
           /\ pending_midi_events' = r.pending
           /\ current_grid' = r.grid
           /\ obs' = [obs EXCEPT !.entry = pending_midi_events,
                                 !.dispatched = r.dispatched,
                                 !.sounds = r.sounds,
                                 !.delivered = @ \o r.dispatched]
  /\ pc' = "advance"
  /\ UNCHANGED <<prog, notMain, clock, start_time, current_play_time, current_midi_index,
                 paused, running, arrow_key_pressed, target_grid,
                 transition_counter>>

\* the bug of an auto-advance that waits for a timeline with events to end:
\* if midi_events and not pending_midi_events
AutoAdvanceAfterEvents ==
  /\ prog = "main" /\ pc = "advance"
  /\ IF pending_midi_events = << >> /\ midi_events # << >>
     THEN LoadTimeline((current_midi_index + 1) % Len(midi_files), "auto")
     ELSE UNCHANGED <<current_grid, target_grid, current_midi_index, start_time,
                      pending_midi_events, obs>>
  /\ pc' = "step"
  /\ UNCHANGED <<prog, notMain, clock, current_play_time, paused, running,
                 arrow_key_pressed, transition_counter>>

\* main.py:449-457
AutoAdvance ==
  /\ prog = "main" /\ pc = "advance"
  /\ IF pending_midi_events = << >>
     THEN LoadTimeline((current_midi_index + 1) % Len(midi_files), "auto")
     ELSE UNCHANGED <<current_grid, target_grid, current_midi_index, start_time,
                      pending_midi_events, obs>>
  /\ pc' = "step"
  /\ UNCHANGED <<prog, notMain, clock, current_play_time, paused, running,
                 arrow_key_pressed, transition_counter>>

\* the bug of a step block that does not test paused
StepWhilePaused ==
  /\ prog = "main" /\ pc = "step"
  /\ IF transition_counter + 1 >= TRANSITION_FRAMES
     THEN \E r1, r2 \in FrameSources :
            \E new_grid \in {StepGrid(current_grid, RndSource(r1))} :
                /\ current_grid' = new_grid
                /\ target_grid' = StepGrid(new_grid, RndSource(r2))
                /\ transition_counter' = 0
                /\ obs' = [obs EXCEPT !.update_calls = 2, !.committed = TRUE,
                                      !.unpaused = @ + 1,
                                      !.t = <<0, TRANSITION_FRAMES>>]
     ELSE /\ transition_counter' = transition_counter + 1
          /\ obs' = [obs EXCEPT !.unpaused = @ + 1,
                                !.t = <<transition_counter + 1, TRANSITION_FRAMES>>]
          /\ UNCHANGED <<current_grid, target_grid>>
  /\ pc' = "render"
  /\ UNCHANGED <<prog, notMain, clock, start_time, current_play_time, current_midi_index,
                 pending_midi_events, paused, running, arrow_key_pressed>>

\* the bug of a cadence test with > for >=: the step waits one frame more
StepLate ==
  /\ prog = "main" /\ pc = "step"
  /\ IF ~paused
     THEN IF transition_counter + 1 > TRANSITION_FRAMES
          THEN \E r1, r2 \in FrameSources :
                 \E new_grid \in {StepGrid(current_grid, RndSource(r1))} :
                     /\ current_grid' = new_grid
                     /\ target_grid' = StepGrid(new_grid, RndSource(r2))
                     /\ transition_counter' = 0
                     /\ obs' = [obs EXCEPT !.update_calls = 2, !.committed = TRUE,
                                           !.unpaused = @ + 1,
                                           !.t = <<0, TRANSITION_FRAMES>>]
          ELSE /\ transition_counter' = transition_counter + 1
               /\ obs' = [obs EXCEPT !.unpaused = @ + 1,
                                     !.t = <<transition_counter + 1,
                                             TRANSITION_FRAMES>>]
               /\ UNCHANGED <<current_grid, target_grid>>
     ELSE /\ obs' = [obs EXCEPT !.t = <<0, TRANSITION_FRAMES>>]
          /\ UNCHANGED <<current_grid, target_grid, transition_counter>>
  /\ pc' = "render"
  /\ UNCHANGED <<prog, notMain, clock, start_time, current_play_time, current_midi_index,
                 pending_midi_events, paused, running, arrow_key_pressed>>

\* main.py:459-468; obs.t is the t of lines 466 and 468, the fraction
\* <<numerator, denominator>>, and obs.unpaused counts the frames run with
\* paused false
Step ==
  /\ prog = "main" /\ pc = "step"
  /\ IF ~paused
     THEN IF transition_counter + 1 >= TRANSITION_FRAMES
          THEN \E r1, r2 \in FrameSources :
                 \E new_grid \in {StepGrid(current_grid, RndSource(r1))} :
                     /\ current_grid' = new_grid
                     /\ target_grid' = StepGrid(new_grid, RndSource(r2))
                     /\ transition_counter' = 0
                     /\ obs' = [obs EXCEPT !.update_calls = 2, !.committed = TRUE,
                                           !.unpaused = @ + 1,
                                           !.t = <<0, TRANSITION_FRAMES>>]
          ELSE /\ transition_counter' = transition_counter + 1
               /\ obs' = [obs EXCEPT !.unpaused = @ + 1,
                                     !.t = <<transition_counter + 1,
                                             TRANSITION_FRAMES>>]
               /\ UNCHANGED <<current_grid, target_grid>>
     ELSE /\ obs' = [obs EXCEPT !.t = <<0, TRANSITION_FRAMES>>]
          /\ UNCHANGED <<current_grid, target_grid, transition_counter>>
  /\ pc' = "render"
  /\ UNCHANGED <<prog, notMain, clock, start_time, current_play_time, current_midi_index,
                 pending_midi_events, paused, running, arrow_key_pressed>>

\* main.py:470-476: draw_interpolated_grid reads both grids and the frame is
\* shown
Render ==
  /\ prog = "main" /\ pc = "render"
  /\ pc' = "tick"
  /\ UNCHANGED <<prog, notMain, clock, start_time, current_play_time, current_midi_index,
                 pending_midi_events, paused, running, arrow_key_pressed,
                 current_grid, target_grid, transition_counter, obs>>

MainNext ==
  \/ Tick \/ Exit \/ QuitEvent
  \/ \E key \in Keys : KeyDown(key)
  \/ \E key \in Keys : KeyUp(key)
  \/ EndEvents \/ Dispatch \/ AutoAdvance \/ Step \/ Render

\* main.py:146-156 raised: the interpreter has ended with the traceback before
\* main() was called, and no frame was run
MainCrashed ==
  /\ prog = "main"
  /\ pc = "crashed"
  /\ clock = 0 /\ start_time = 0 /\ current_play_time = 0
  /\ current_midi_index = 0 /\ pending_midi_events = << >>
  /\ paused = FALSE /\ running = FALSE
  /\ arrow_key_pressed = [k \in {"K_LEFT", "K_RIGHT"} |-> FALSE]
  /\ current_grid = clear_board /\ target_grid = clear_board
  /\ transition_counter = 0
  /\ \E present \in SUBSET SampleFiles :
       /\ sound_setup(present) = "raised"
       /\ obs = [polled |-> 0, missing |-> SampleFiles \ present]

\* main.py does not run
MainIdle ==
  /\ pc = "off" /\ clock = 0 /\ start_time = 0 /\ current_play_time = 0
  /\ current_midi_index = 0 /\ pending_midi_events = << >>
  /\ paused = FALSE /\ running = FALSE
  /\ arrow_key_pressed = [k \in {"K_LEFT", "K_RIGHT"} |-> FALSE]
  /\ current_grid = clear_board /\ target_grid = clear_board
  /\ transition_counter = 0
  /\ obs = [polled |-> 0]

\* ---------------------------------------------------------------------------
\* panda.py
\* ---------------------------------------------------------------------------
\* panda.py:80-90: (current_time, msg) of every note_on and note_off, the
\* messages from the k-th on
RECURSIVE process_midi_from(_, _, _)
process_midi_from(mid, k, current_time) ==
  IF k > Len(mid) THEN << >>
  ELSE LET t == current_time + mid[k].time
           rest == process_midi_from(mid, k + 1, t)
       IN  IF mid[k].type \in {"note_on", "note_off"}
           THEN << [t |-> t, msg |-> mid[k]] >> \o rest
           ELSE rest

\* panda.py:80-90
process_midi(mid) == process_midi_from(mid, 1, 0)

\* self.midi_events, panda.py:29
panda_midi_events == process_midi(midi_files[panda_midi])

\* the real time one frame of the task manager may take
PandaTicks == {10, 50, 150}

\* the bug of a note_on that does not test msg.note not in self.active_notes:
\* a second cube is made for a note that is active, and the first is left
\* in the scene
panda_handle_second_cube(notes, msg, idx) ==
  IF msg.type = "note_on" /\ msg.velocity > 0
  THEN Value([n \in DOMAIN notes \cup {msg.note} |->
                IF n = msg.note THEN idx ELSE notes[n]])
  ELSE IF msg.type = "note_off" \/ (msg.type = "note_on" /\ msg.velocity = 0)
       THEN IF msg.note \in DOMAIN notes
            THEN Value([n \in DOMAIN notes \ {msg.note} |-> notes[n]])
            ELSE notes
       ELSE notes

\* panda.py:101-108: active_notes after one event; a cube is named by the
\* position of the event that made it
panda_handle(notes, msg, idx) ==
  IF msg.type = "note_on" /\ msg.velocity > 0
  THEN IF msg.note \notin DOMAIN notes
       THEN Value([n \in DOMAIN notes \cup {msg.note} |->
                     IF n = msg.note THEN idx ELSE notes[n]])
       ELSE notes
  ELSE IF msg.type = "note_off" \/ (msg.type = "note_on" /\ msg.velocity = 0)
       THEN IF msg.note \in DOMAIN notes
            THEN Value([n \in DOMAIN notes \ {msg.note} |-> notes[n]])
            ELSE notes
       ELSE notes

\* panda.py:101-110: the body of the while loop for the event ev
update_scene_one(st, ev) ==
  [event_index  |-> st.event_index + 1,
   active_notes |-> panda_handle(st.active_notes, ev.msg, st.event_index),
   processed    |-> Append(st.processed, st.event_index)]

\* panda.py:96-110: the while loop; st is the cursor, the notes and the
\* positions processed so far
RECURSIVE update_scene_loop(_, _, _)
update_scene_loop(st, events, current_time) ==
  IF st.event_index < Len(events)
  THEN IF events[st.event_index + 1].t > current_time THEN st
       ELSE update_scene_loop(update_scene_one(st, events[st.event_index + 1]),
                              events, current_time)
  ELSE st

\* panda.py:11-34
PandaInit ==
  /\ prog = "panda"
  /\ panda_midi \in DOMAIN midi_files
  /\ panda_clock = 0
  /\ panda_start_time = 0
  /\ event_index = 0
  /\ active_notes = << >>
  /\ panda_obs = [processed |-> << >>, current_time |-> 0]

\* panda.py:92-112, one run of the task
update_scene ==
  /\ prog = "panda"
  /\ \E dt \in PandaTicks :
       /\ panda_clock + dt <= MaxClock
       /\ panda_clock' = panda_clock + dt
  /\ LET current_time == panda_clock' - panda_start_time
         r == update_scene_loop([event_index |-> event_index,
                                 active_notes |-> active_notes,
                                 processed |-> << >>],
                                panda_midi_events, current_time)
     IN  /\ event_index' = r.event_index
         /\ active_notes' = r.active_notes
         /\ panda_obs' = [processed |-> r.processed, current_time |-> current_time]
  /\ UNCHANGED <<prog, notPanda, panda_midi, panda_start_time>>

PandaNext == update_scene

\* panda.py does not run
PandaIdle ==
  /\ panda_midi = 1 /\ panda_clock = 0 /\ panda_start_time = 0
  /\ event_index = 0 /\ active_notes = << >>
  /\ panda_obs = [processed |-> << >>, current_time |-> 0]

\* ---------------------------------------------------------------------------
\* game.py: the update task of GridGame
\* ---------------------------------------------------------------------------
GameCoords == (0 .. GAME_GRID_ROWS - 1) \X (0 .. GAME_GRID_COLS - 1)

\* game.py:57-69: (abs_time, msg) of every note_on with velocity > 0, sorted
\* by time
game_extract_midi_events(mid) == sort_by_time(<< >>, collect_events(mid, 1, 0))

\* midi_events, the global of game.py:76
game_midi_events == game_extract_midi_events(midi_files[game_midi])

\* task.time * 1000: the milliseconds between two runs of the task
GameTicks == {50, 150}

\* what random.randint and random.choice return in the handling of one
\* event (game.py:219, 224), by name
GameSource(name) ==
  IF name = "first"
  THEN [cell |-> <<0, 0>>, color |-> ROYGBIV[1]]
  ELSE [cell |-> <<GAME_GRID_ROWS - 1, GAME_GRID_COLS - 1>>, color |-> ROYGBIV[7]]

GameSources == {"first", "last"}

\* game.py:222-225: set_color with the channels of new_color over 255 and
\* alpha 1
update_cell_color(grid, rnd) ==
  [grid EXCEPT ![rnd.cell] = [num |-> rnd.color, den |-> 255, alpha |-> 1]]

\* game.py:216-220; st is the grid and what has been handled so far
handle_midi_event(st, i, msg, rnd) ==
  [grid    |-> IF msg.type = "note_on" /\ msg.velocity > 0
               THEN update_cell_color(st.grid, rnd) ELSE st.grid,
   handled |-> [st.handled EXCEPT ![i] = @ + 1],
   last    |-> Append(st.last, i)]

\* game.py:211-213: the for loop over midi_events, from the i-th event on
RECURSIVE game_update_loop(_, _, _, _, _)
game_update_loop(st, events, i, now, rnd) ==
  IF i > Len(events) THEN st
  ELSE game_update_loop(IF now >= events[i].t
                        THEN handle_midi_event(st, i, events[i].msg, rnd)
                        ELSE st,
                        events, i + 1, now, rnd)

\* game.py:183-186: every cell is made with a colour of ROYGBIV
GameSeedGrids ==
  {[p \in GameCoords |-> [num |-> ROYGBIV[c], den |-> 255, alpha |-> 1]] :
     c \in {2, 4}}

\* game.py:71-76, 88-119
GameInit ==
  /\ prog = "game"
  /\ game_midi \in DOMAIN midi_files
  /\ game_time = 0
  /\ game_grid \in GameSeedGrids
  /\ game_obs = [handled |-> [i \in 1 .. Len(game_midi_events) |-> 0],
                 last |-> << >>, runs |-> 0]

\* game.py:208-214, one run of the task
GameUpdate ==
  /\ prog = "game"
  /\ \E dt \in GameTicks :
       /\ game_time + dt <= MaxClock
       /\ game_time' = game_time + dt
  /\ \E src \in GameSources :
       \E r \in {game_update_loop([grid |-> game_grid,
                                   handled |-> game_obs.handled,
                                   last |-> << >>],
                                  game_midi_events, 1, game_time',
                                  GameSource(src))} :
           /\ game_grid' = r.grid
           /\ game_obs' = [handled |-> r.handled, last |-> r.last,
                           runs |-> game_obs.runs + 1]
  /\ UNCHANGED <<prog, notGame, game_midi>>

GameNext == GameUpdate

\* game.py does not run
GameIdle ==
  /\ game_midi = 1 /\ game_time = 0
  /\ game_grid = << >>
  /\ game_obs = [runs |-> 0]

\* ---------------------------------------------------------------------------
\* cube.py: main(), one action per block of the frame loop
\* ---------------------------------------------------------------------------
\* cube.py:197-200, after the seeding of 53-60
CubeInit ==
  /\ prog = "cube"
  /\ cube_pc = "tick"
  /\ cube_grid \in CubeSeedGrids
  /\ cube_paused = FALSE
  /\ cube_running = TRUE
  /\ cube_obs = [polled |-> 0, updates |-> 0, played |-> 0]

\* cube.py:202-203
CubeTick ==
  /\ prog = "cube" /\ cube_pc = "tick" /\ cube_running
  /\ cube_pc' = "events"
  /\ cube_obs' = [polled |-> 0, updates |-> 0, played |-> 0]
  /\ UNCHANGED <<prog, notCube, cube_grid, cube_paused, cube_running>>

\* cube.py:202, 217-218
CubeExit ==
  /\ prog = "cube" /\ cube_pc = "tick" /\ ~cube_running
  /\ cube_pc' = "done"
  /\ UNCHANGED <<prog, notCube, cube_grid, cube_paused, cube_running, cube_obs>>

\* cube.py:205-206
CubeQuitEvent ==
  /\ prog = "cube" /\ cube_pc = "events" /\ cube_obs.polled < MaxFrameEvents
  /\ cube_running' = FALSE
  /\ cube_obs' = [cube_obs EXCEPT !.polled = @ + 1]
  /\ UNCHANGED <<prog, notCube, cube_pc, cube_grid, cube_paused>>

\* cube.py:208-210
CubeKeyDown(key) ==
  /\ prog = "cube" /\ cube_pc = "events" /\ cube_obs.polled < MaxFrameEvents
  /\ cube_paused' = IF key = "K_SPACE" THEN ~cube_paused ELSE cube_paused
  /\ cube_obs' = [cube_obs EXCEPT !.polled = @ + 1]
  /\ UNCHANGED <<prog, notCube, cube_pc, cube_grid, cube_running>>

\* cube.py:204: pygame.event.get() has no further event
CubeEndEvents ==
  /\ prog = "cube" /\ cube_pc = "events"
  /\ cube_pc' = "update"
  /\ cube_obs' = [cube_obs EXCEPT !.polled = 0]
  /\ UNCHANGED <<prog, notCube, cube_grid, cube_paused, cube_running>>

\* cube.py:212-213
CubeUpdate ==
  /\ prog = "cube" /\ cube_pc = "update"
  /\ IF ~cube_paused
     THEN \E rnd \in CubeSources :
            \E r \in {cube_update_grid(<< cube_grid >>, 1, CubeSource(rnd))} :
                /\ cube_grid' = r.lists[r.ret]
                /\ cube_obs' = [cube_obs EXCEPT !.updates = @ + 1,
                                                !.played = r.played]
     ELSE UNCHANGED <<cube_grid, cube_obs>>
  /\ cube_pc' = "draw"
  /\ UNCHANGED <<prog, notCube, cube_paused, cube_running>>

\* cube.py:214-215: draw_grid reads the grid and the frame is shown
CubeDraw ==
  /\ prog = "cube" /\ cube_pc = "draw"
  /\ cube_pc' = "tick"
  /\ UNCHANGED <<prog, notCube, cube_grid, cube_paused, cube_running, cube_obs>>

CubeNext ==
  \/ CubeTick \/ CubeExit \/ CubeQuitEvent
  \/ \E key \in {"K_SPACE", "K_ESCAPE"} : CubeKeyDown(key)
  \/ CubeEndEvents \/ CubeUpdate \/ CubeDraw

\* cube.py does not run
CubeIdle ==
  /\ cube_pc = "off" /\ cube_grid = [p \in CubeCoords |-> CubeNone]
  /\ cube_paused = FALSE /\ cube_running = FALSE
  /\ cube_obs = [polled |-> 0, updates |-> 0, played |-> 0]

\* ---------------------------------------------------------------------------
\* Single calls of the step functions and of count_neighbors: the input is
\* drawn, then the function is applied to it
\* ---------------------------------------------------------------------------
\* every pattern of live cells inside a 3 x 3 window put at the top-left and
\* at the bottom-right corner of the board
InputPatterns ==
  UNION {{{<<a[1] + q[1], a[2] + q[2]>> : q \in live} :
            live \in SUBSET ((0 .. 2) \X (0 .. 2))} :
           a \in {<<0, 0>>, <<GRID_ROWS - 3, GRID_COLS - 3>>}}

InputGrids ==
  {[p \in Coords |-> IF p \in live THEN SeedCell(p) ELSE None] :
     live \in InputPatterns}

\* every pattern inside a 2 x 2 x 2 window put at two opposite corners
CubeInputPatterns ==
  UNION {{{<<a[1] + q[1], a[2] + q[2], a[3] + q[3]>> : q \in live} :
            live \in SUBSET ((0 .. 1) \X (0 .. 1) \X (0 .. 1))} :
           a \in {<<0, 0, 0>>,
                  <<CUBE_GRID_WIDTH - 2, CUBE_GRID_DEPTH - 2, CUBE_GRID_HEIGHT - 2>>}}

CubeInputGrids ==
  {[p \in CubeCoords |-> IF p \in live THEN CubeSeedColor(p) ELSE CubeNone] :
     live \in CubeInputPatterns}

\* the decision sources single calls are run with
CallSources == {"a_never", "b_always", "mixed"}

\* the decision sources the second of two calls is run with
AgainSources == {"a_never", "b_always"}

CubeAgainSources == {"red", "blue"}

\* every pattern inside a 3 x 3 window that lies across the edges of the
\* wrapping board: rows GRID_HEIGHT - 2, GRID_HEIGHT - 1 and 0, and the
\* columns likewise
HybInputPatterns ==
  {{<<(HYB_GRID_HEIGHT - 2 + q[1]) % HYB_GRID_HEIGHT,
      (HYB_GRID_WIDTH - 2 + q[2]) % HYB_GRID_WIDTH>> : q \in live} :
     live \in SUBSET ((0 .. 2) \X (0 .. 2))}

HybInputGrids ==
  {[p \in HybCoords |-> IF p \in live THEN HybSeedColor(p) ELSE HybDead] :
     live \in HybInputPatterns}

CallInit ==
  /\ prog = "call"
  /\ call \in {[fn |-> "input", grid |-> g] : g \in InputGrids}
                \cup {[fn |-> "cube_input", grid |-> g] : g \in CubeInputGrids}
                \cup {[fn |-> "hyb_input", board |-> g] : g \in HybInputGrids}
                \cup {[fn |-> "lerp_input", cell1 |-> a, cell2 |-> b] :
                        a, b \in LerpCells \cup {None}}

\* main.py:216-240  new_grid = update_logic(grid)
CallUpdateLogic ==
  /\ prog = "call" /\ call.fn = "input"
  /\ \E rnd \in CallSources :
       \E m0 \in {LoadGrid(call.grid)} : \E r \in {update_logic(m0, 1, RndSource(rnd))} :
           call' = [fn |-> "update_logic", grid |-> call.grid, rnd |-> rnd,
                    before |-> m0, after |-> r.mem, ret |-> r.ret]
  /\ UNCHANGED <<prog, notCall>>

\* main.py:216-240  update_logic(grid) once more, on the same grid object
CallUpdateLogicAgain ==
  /\ prog = "call" /\ call.fn = "update_logic"
  /\ \E rnd \in AgainSources :
       \E r \in {update_logic(call.after, 1, RndSource(rnd))} :
           call' = [fn |-> "update_logic_twice", grid |-> call.grid,
                    first |-> ValueOf(call.after, call.ret),
                    second |-> ValueOf(r.mem, r.ret),
                    same_rnd |-> (rnd = call.rnd)]
  /\ UNCHANGED <<prog, notCall>>

\* main.py:242-264  apply_war_rules(grid)
CallApplyWarRules ==
  /\ prog = "call" /\ call.fn = "input"
  /\ \E rnd \in CallSources :
       \E m0 \in {LoadGrid(call.grid)} : \E r \in {apply_war_rules(m0, 1, RndSource(rnd))} :
           call' = [fn |-> "apply_war_rules", grid |-> call.grid, rnd |-> rnd,
                    before |-> m0, after |-> r.mem, ret |-> r.ret]
  /\ UNCHANGED <<prog, notCall>>

\* the decision sources the war pass alone is run with
WarSources == {"b_always", "mixed"}

\* main.py:242-264  apply_war_rules(grid), and the same pass on the same grid
\* with the coordinates in another order
CallApplyWarRulesInOrder ==
  /\ prog = "call" /\ call.fn = "input"
  /\ \E rnd \in WarSources : \E order \in ScanOrders :
       \E m0 \in {LoadGrid(call.grid)} :
         \E r \in {apply_war_rules(m0, 1, RndSource(rnd))} :
           \E o \in {apply_war_rules_in_order(m0, 1, RndSource(rnd), ScanIn(order))} :
             call' = [fn |-> "apply_war_rules_in_order", grid |-> call.grid,
                      rnd |-> rnd, order |-> order,
                      ret |-> ValueOf(r.mem, r.ret),
                      ret_in_order |-> ValueOf(o.mem, o.ret),
                      input_after |-> ValueOf(o.mem, 1)]
  /\ UNCHANGED <<prog, notCall>>

\* main.py:205-214  count_neighbors(r, c, grid), for every (r, c)
CallCountNeighbors ==
  /\ prog = "call" /\ call.fn = "input"
  /\ \E m0 \in {LoadGrid(call.grid)} :
         call' = [fn |-> "count_neighbors", grid |-> call.grid,
                  result |-> [p \in Coords |-> count_neighbors(m0, 1, p[1], p[2])]]
  /\ UNCHANGED <<prog, notCall>>

\* cube.py:106-126  update_grid(old_grid)
CallCubeUpdateGrid ==
  /\ prog = "call" /\ call.fn = "cube_input"
  /\ \E rnd \in CubeSources :
       \E r \in {cube_update_grid(<< call.grid >>, 1, CubeSource(rnd))} :
           call' = [fn |-> "update_grid", grid |-> call.grid, rnd |-> rnd,
                    before |-> << call.grid >>, after |-> r.lists, ret |-> r.ret,
                    played |-> r.played]
  /\ UNCHANGED <<prog, notCall>>

\* cube.py:106-126  update_grid(old_grid) once more, on the same grid object
CallCubeUpdateGridAgain ==
  /\ prog = "call" /\ call.fn = "update_grid"
  /\ \E rnd \in CubeAgainSources :
       \E r \in {cube_update_grid(call.after, 1, CubeSource(rnd))} :
           call' = [fn |-> "update_grid_twice", grid |-> call.grid,
                    first |-> call.after[call.ret],
                    second |-> r.lists[r.ret],
                    same_rnd |-> (rnd = call.rnd)]
  /\ UNCHANGED <<prog, notCall>>

\* cube.py:93-104  count_neighbors(grid, x, y, z), for every (x, y, z)
CallCubeCountNeighbors ==
  /\ prog = "call" /\ call.fn = "cube_input"
  /\ call' = [fn |-> "cube_count_neighbors", grid |-> call.grid,
              result |-> [p \in CubeCoords |->
                            cube_count_neighbors(<< call.grid >>, 1, p)]]
  /\ UNCHANGED <<prog, notCall>>

\* hybrid.py:145-155  self.count_neighbors(x, y), for every (x, y)
CallHybCountNeighbors ==
  /\ prog = "call" /\ call.fn = "hyb_input"
  /\ call' = [fn |-> "hyb_count_neighbors", board |-> call.board,
              result |-> [p \in HybCoords |->
                            hyb_count_neighbors(call.board, p[1], p[2])]]
  /\ UNCHANGED <<prog, notCall>>

\* hybrid.py:157-171  update_grid()
CallHybUpdateGrid ==
  /\ prog = "call" /\ call.fn = "hyb_input"
  /\ \E rnd \in HybSources :
       \E r \in {hyb_update_grid(call.board, HybSource(rnd))} :
           call' = [fn |-> "hyb_update_grid", board |-> call.board, rnd |-> rnd,
                    new_board |-> r.new_grid, writes |-> r.writes]
  /\ UNCHANGED <<prog, notCall>>

\* main.py:77-90  lerp_cell(cell1, cell2, t), for every t
CallLerpCell ==
  /\ prog = "call" /\ call.fn = "lerp_input"
  /\ \E fp \in FpSources :
       call' = [fn |-> "lerp_cell", cell1 |-> call.cell1, cell2 |-> call.cell2,
                fp |-> fp,
                result |-> [n \in 0 .. LerpSteps |->
                              lerp_cell(call.cell1, call.cell2, n, LerpSteps, fp)]]
  /\ UNCHANGED <<prog, notCall>>

\* main.py:340-346  the cell draw_interpolated_grid draws where current_grid
\* has cell1 and target_grid has cell2, for every t
CallEffectiveCell ==
  /\ prog = "call" /\ call.fn = "lerp_input"
  /\ \E fp \in FpSources :
       call' = [fn |-> "effective_cell", cell1 |-> call.cell1, cell2 |-> call.cell2,
                fp |-> fp,
                result |-> [n \in 0 .. LerpSteps |->
                              effective_cell(call.cell1, call.cell2, n, LerpSteps, fp)]]
  /\ UNCHANGED <<prog, notCall>>

\* one call
CallNext ==
  \/ CallUpdateLogic \/ CallApplyWarRules \/ CallCountNeighbors
  \/ CallCubeUpdateGrid \/ CallCubeCountNeighbors
  \/ CallHybCountNeighbors \/ CallApplyWarRulesInOrder
  \/ CallHybUpdateGrid
  \/ CallLerpCell \/ CallEffectiveCell

\* a step function called twice
CallTwiceNext ==
  \/ CallUpdateLogic \/ CallUpdateLogicAgain
  \/ CallCubeUpdateGrid \/ CallCubeUpdateGridAgain

\* a sample to shift
SoundInit ==
  /\ prog = "call"
  /\ call \in {[fn |-> "sample_input", sound_array |-> a] : a \in Samples}

\* main.py:269-275  pitch_shift(sound_array, factor)
CallPitchShift ==
  /\ prog = "call" /\ call.fn = "sample_input"
  /\ \E f \in PitchFactors :
       \E r \in {pitch_shift(call.sound_array, f[1], f[2])} :
         call' = [fn |-> "pitch_shift", sound_array |-> call.sound_array,
                  factor |-> f, raised |-> r.raised, new_array |-> r.ret]
  /\ UNCHANGED <<prog, notCall>>

\* no single call is under way
\* the MIDI data bytes add_piece_to_board is called with
PieceNotes == 0 .. 127
PieceVelocities == {0, 1, 63, 64, 126, 127}

\* the globals current_grid and target_grid before a call of
\* add_piece_to_board(note, velocity): a board of the seeding with its copy
\* (main.py:375-388) or the cleared boards (main.py:188-191)
PieceInit ==
  /\ prog = "call"
  /\ call \in [fn : {"piece_input"}, note : PieceNotes, velocity : PieceVelocities,
               grid : SeedGrids \cup {clear_board}]

\* main.py:305-329  add_piece_to_board(note, velocity): the two globals
\* afterwards; target_grid is not assigned
CallAddPieceToBoard ==
  /\ prog = "call" /\ call.fn = "piece_input"
  /\ \E prnd \in PieceSources :
       call' = [fn |-> "add_piece_to_board", note |-> call.note,
                velocity |-> call.velocity, grid |-> call.grid,
                current_grid |-> add_piece_to_board(call.grid, call.note,
                                                    call.velocity,
                                                    PieceSource(prnd)[1]),
                target_grid |-> call.grid]
  /\ UNCHANGED <<prog, notCall>>

\* the channel, note and velocity of the note_on messages the dispatch loop
\* is given
EventChannels == {0, DRUM_CHANNEL, 15}
EventNotes == {0, 21, 35, 36, 37, 38, 39, 40, 42, 44, 46, 60, 108, 127}
EventVelocities == {1, 64, 127}

\* the head of pending_midi_events, due, and the two boards before the body
\* of the while loop of main.py:439 runs for it
EventInit ==
  /\ prog = "call"
  /\ call \in [fn : {"event_input"},
               msg : {Msg("note_on", 0, ch, n, v) :
                        ch \in EventChannels, n \in EventNotes, v \in EventVelocities},
               grid : SeedGrids \cup {clear_board}]

\* main.py:440-447: the body of the while loop for one event; target_grid is
\* not assigned
CallDispatchOne ==
  /\ prog = "call" /\ call.fn = "event_input"
  /\ \E prnd \in PieceSources :
       \E r \in {dispatch_one([pending |-> << [t |-> 0, msg |-> call.msg] >>,
                               grid |-> call.grid,
                               dispatched |-> << >>, sounds |-> << >>],
                              [t |-> 0, msg |-> call.msg], PieceSource(prnd))} :
         call' = [fn |-> "dispatch_one", msg |-> call.msg, grid |-> call.grid,
                  pending |-> r.pending, sounds |-> r.sounds,
                  current_grid |-> r.grid, target_grid |-> call.grid]
  /\ UNCHANGED <<prog, notCall>>

CallIdle == call = [fn |-> "none"]

\* ---------------------------------------------------------------------------
\* Specifications
\* ---------------------------------------------------------------------------
\* python main.py
Init == MainInit /\ CubeIdle /\ PandaIdle /\ GameIdle /\ CallIdle

Next == MainNext

Spec == Init /\ [][Next]_vars

\* python main.py, or python panda.py: the two schedulers
InitSched ==
  \/ MainInit /\ CubeIdle /\ PandaIdle /\ GameIdle /\ CallIdle
  \/ PandaInit /\ MainIdle /\ CubeIdle /\ GameIdle /\ CallIdle

NextSched == MainNext \/ PandaNext

SpecSched == InitSched /\ [][NextSched]_vars

\* python main.py, or python cube.py: the two frame loops with a pause key
InitPause ==
  \/ MainInit /\ CubeIdle /\ PandaIdle /\ GameIdle /\ CallIdle
  \/ CubeInit /\ MainIdle /\ PandaIdle /\ GameIdle /\ CallIdle

NextPause == MainNext \/ CubeNext

SpecPause == InitPause /\ [][NextPause]_vars

\* one call of a step function or of count_neighbors
InitStep == CallInit /\ MainIdle /\ CubeIdle /\ PandaIdle /\ GameIdle

NextStep == CallNext

SpecStep == InitStep /\ [][NextStep]_vars

\* python main.py in a working directory with any of the sample files
InitStartup ==
  /\ MainInit \/ MainCrashed
  /\ CubeIdle /\ PandaIdle /\ GameIdle /\ CallIdle

NextStartup == MainNext

SpecStartup == InitStartup /\ [][NextStartup]_vars

\* python game.py
InitGame == GameInit /\ MainIdle /\ CubeIdle /\ PandaIdle /\ CallIdle

NextGame == GameNext

SpecGame == InitGame /\ [][NextGame]_vars

\* python main.py, or python panda.py, left to play: no LEFT or RIGHT key,
\* no quit, SPACE at will, and the frame loop and the task manager keep
\* running their next step as long as the clock stays within MaxClock
MainLiveNext ==
  \/ Tick
  \/ KeyDown("K_SPACE")
  \/ \E key \in Keys : KeyUp(key)
  \/ EndEvents \/ Dispatch \/ AutoAdvance \/ Step \/ Render

NextLive == MainLiveNext \/ PandaNext

\* main() goes on from the block at p to the block at q
Proceed(p, q) == prog = "main" /\ pc = p /\ pc' = q

\* every block of the frame loop, once reached, is run (the loop is one
\* thread); so is the task of panda.py
SpecLive ==
  /\ InitSched /\ [][NextLive]_vars
  /\ WF_vars(Tick) /\ WF_vars(EndEvents)
  /\ WF_pc(Proceed("dispatch", "advance"))
  /\ WF_vars(AutoAdvance)
  /\ WF_pc(Proceed("step", "render"))
  /\ WF_vars(Render)
  /\ WF_vars(update_scene)

\* one call of add_piece_to_board
InitPiece == (PieceInit \/ EventInit) /\ MainIdle /\ CubeIdle /\ PandaIdle /\ GameIdle

NextPiece == CallAddPieceToBoard \/ CallDispatchOne

SpecPiece == InitPiece /\ [][NextPiece]_vars

\* one call of a function of the sound code
InitSound == SoundInit /\ MainIdle /\ CubeIdle /\ PandaIdle /\ GameIdle

NextSound == CallPitchShift

SpecSound == InitSound /\ [][NextSound]_vars

\* two calls of a step function with the same grid
NextTwice == CallTwiceNext

SpecTwice == InitStep /\ [][NextTwice]_vars

\* ---------------------------------------------------------------------------
\* Properties of the schedulers and of the pause (main.py, panda.py, cube.py)
\* ---------------------------------------------------------------------------
\* the timestamps of a sequence of events
TimesOf(events) == [i \in DOMAIN events |-> events[i].t]

\* events is ascending: each entry is a later message of the file than the one
\* before it, and is due no earlier
Ascending(events) ==
  \A i, j \in DOMAIN events :
    i < j => events[i].k < events[j].k /\ events[i].t <= events[j].t

\* main.py: what has been dispatched of the loaded timeline is ascending and
\* without repetition; panda.py: the cursor is within the events
C1_Delivered ==
  /\ prog = "main" =>
       /\ Ascending(obs.delivered)
       /\ \A i \in DOMAIN obs.delivered : obs.delivered[i].gen = obs.loads
  /\ prog = "panda" =>
       /\ event_index <= Len(panda_midi_events)
       /\ \A i, j \in DOMAIN panda_midi_events :
            i < j => panda_midi_events[i].t <= panda_midi_events[j].t

\* main.py: a step leaves the queue, or pops events off its front and
\* dispatches exactly those, or loads a timeline; panda.py: a run of the task
\* moves the cursor forward over the events it handles, one by one
C1_Pops ==
  /\ prog = "main" =>
       \/ obs'.loads = obs.loads + 1
       \/ \E n \in 0 .. Len(pending_midi_events) :
            /\ pending_midi_events' =
                 SubSeq(pending_midi_events, n + 1, Len(pending_midi_events))
            /\ obs'.delivered = obs.delivered \o SubSeq(pending_midi_events, 1, n)
  /\ prog = "panda" =>
       /\ event_index' >= event_index
       /\ panda_obs'.processed =
            [i \in 1 .. (event_index' - event_index) |-> event_index + i - 1]

\* C1: within one loaded timeline every event is dispatched at most once and
\* in ascending order of time: main.py only pops the front of
\* pending_midi_events, and panda.py's event_index only moves forward, by one
\* per event handled, and never passes the number of events.
C1_OnceAscending == [](C1_Delivered) /\ [][C1_Pops]_vars

\* main.py has dispatched all four events of a.mid over two frames
C1_Witness ==
  /\ prog = "main" /\ pc = "advance"
  /\ TimesOf(obs.delivered) = <<0, 100, 250, 400>>
  /\ TimesOf(obs.dispatched) = <<250, 400>>

\* C2: the dispatch loop of a frame with elapsed time T pops exactly the
\* pending events with timestamp <= T, in order, and leaves only events with
\* timestamp > T, so that a second pass at the same T dispatches nothing; with
\* events at 0, 100, 250, 400, T = 150 dispatches 0 and 100 and T = 500 then
\* dispatches 250 and 400.
C2_DispatchesDue ==
  (prog = "main" /\ pc = "advance") =>
    /\ obs.dispatched =
         SelectSeq(obs.entry, LAMBDA e : e.t <= current_play_time)
    /\ obs.entry = obs.dispatched \o pending_midi_events
    /\ \A i \in DOMAIN pending_midi_events :
         pending_midi_events[i].t > current_play_time
    /\ \A prnd \in PieceSources :
         dispatch_loop([pending |-> pending_midi_events, grid |-> current_grid,
                        dispatched |-> << >>, sounds |-> << >>],
                       current_play_time, PieceSource(prnd)).dispatched = << >>
    /\ (TimesOf(obs.entry) = <<0, 100, 250, 400>> /\ current_play_time = 150)
         => TimesOf(obs.dispatched) = <<0, 100>>
    /\ (TimesOf(obs.entry) = <<250, 400>> /\ current_play_time = 500)
         => TimesOf(obs.dispatched) = <<250, 400>>

\* the frame at T = 500 that follows the frame at T = 150
C2_Witness ==
  /\ prog = "main" /\ pc = "advance" /\ current_play_time = 500
  /\ TimesOf(obs.entry) = <<250, 400>>
  /\ TimesOf(obs.dispatched) = <<250, 400>>
  /\ pending_midi_events = << >>

\* C3: every event dispatched in a frame has a timestamp <= the clock reading
\* of that frame - the start anchor of its timeline, also in the frame in
\* which a LEFT or RIGHT key press reset start_time and loaded the timeline.
C3_DueOnItsTimeline ==
  (prog = "main" /\ pc = "advance") =>
    \A i \in DOMAIN obs.dispatched :
      /\ obs.dispatched[i].gen = obs.loads
      /\ obs.dispatched[i].t <= clock - start_time

\* a frame in which a key press loaded a timeline and an event of it was
\* dispatched
C3_Witness ==
  /\ prog = "main" /\ pc = "advance"
  /\ obs.change \in {"left", "right"}
  /\ obs.dispatched # << >>

\* the timeline change of a step, if it makes one
C4_Change ==
  (prog = "main" /\ obs'.loads # obs.loads) =>
    /\ current_grid' = clear_board
    /\ target_grid' = clear_board
    /\ obs'.change \in {"left", "right", "auto"}
    /\ pending_midi_events' =
         fresh_pending(extract_midi_events(midi_files[current_midi_index' + 1]),
                       obs'.loads)

\* the events a step dispatches belong to the timeline loaded last
C4_Dispatch ==
  (prog = "main" /\ pc = "dispatch") =>
    \A i \in DOMAIN obs'.dispatched : obs'.dispatched[i].gen = obs'.loads

\* C4: after a timeline change (LEFT, RIGHT or auto-advance) current_grid and
\* target_grid are entirely empty and the pending queue holds all events of
\* the timeline loaded, and no event that was pending in the timeline before
\* is dispatched afterwards.
C4_TimelineChange == [][C4_Change /\ C4_Dispatch]_vars

\* the auto-advance from a.mid, with events of it dispatched in this frame,
\* has loaded b.mid
C4_Witness ==
  /\ prog = "main" /\ pc = "step" /\ obs.change = "auto"
  /\ obs.dispatched # << >>
  /\ current_midi_index = 1
  /\ Len(pending_midi_events) = 2
  /\ current_grid = clear_board /\ target_grid = clear_board

\* C5: while paused no timeline event is dispatched: no sound is triggered
\* and no piece is put on the grid.
C5_NoDispatchPaused ==
  (prog = "main" /\ pc = "advance" /\ paused) =>
    /\ obs.dispatched = << >>
    /\ obs.sounds = << >>

\* a frame that is paused when the dispatch loop has run
C5_Witness ==
  /\ prog = "main" /\ pc = "advance" /\ paused
  /\ Len(obs.sounds) = 2

\* main.py: a frame that is paused at its step block calls update_logic zero
\* times and leaves both grids; transition_counter changes in the step block
\* of a frame that is not paused and nowhere else
C6_Main ==
  prog = "main" =>
    /\ (pc = "step" /\ paused) =>
         /\ obs'.update_calls = 0
         /\ current_grid' = current_grid
         /\ target_grid' = target_grid
    /\ (paused \/ pc # "step") => transition_counter' = transition_counter

\* cube.py: a frame that is paused at its update leaves grid and calls
\* update_grid zero times
C6_Cube ==
  (prog = "cube" /\ cube_pc = "update" /\ cube_paused) =>
    /\ cube_grid' = cube_grid
    /\ cube_obs'.updates = 0

\* C6: while paused no automaton step is applied: a paused frame of cube.py
\* leaves grid unchanged, and a paused frame of main.py calls update_logic
\* zero times and leaves transition_counter unchanged, so that the cadence
\* continues from that value after resuming.
C6_NoStepPaused == [][C6_Main /\ C6_Cube]_vars

\* a paused frame of main.py in which, not paused, the step would have been
\* committed
C6_Witness ==
  /\ prog = "main" /\ pc = "render" /\ paused
  /\ transition_counter + 1 >= TRANSITION_FRAMES
  /\ obs.update_calls = 0

\* ---------------------------------------------------------------------------
\* Properties of the step functions (main.py, cube.py)
\* ---------------------------------------------------------------------------
\* |a - b| <= 1
Near(a, b) == a - b <= 1 /\ b - a <= 1

\* q is one of the 8 cells around p
Adjacent(p, q) == q # p /\ Near(p[1], q[1]) /\ Near(p[2], q[2])

\* q is one of the 26 cells around p
CubeAdjacent(p, q) ==
  q # p /\ Near(p[1], q[1]) /\ Near(p[2], q[2]) /\ Near(p[3], q[3])

\* the number of live cells of the grid of values g around p
LiveAround(g, p) == Cardinality({q \in Alive(g) : Adjacent(p, q)})

CubeLiveAround(g, p) == Cardinality({q \in CubeAlive(g) : CubeAdjacent(p, q)})

\* C7: update_grid(old_grid) of cube.py and update_logic(grid) of main.py,
\* with its war pass apply_war_rules, never mutate their input: after the
\* call the input grid holds at every coordinate the cell it held before,
\* with the attributes it had before.
C7_InputUnchanged ==
  /\ (prog = "call" /\ call.fn \in {"update_logic", "apply_war_rules"}) =>
       /\ call.after.lists[1] = call.before.lists[1]
       /\ \A i \in DOMAIN call.before.dicts :
            call.after.dicts[i] = call.before.dicts[i]
       /\ ValueOf(call.after, 1) = call.grid
       /\ call.ret # 1
  /\ (prog = "call" /\ call.fn = "update_grid") =>
       /\ call.after[1] = call.before[1]
       /\ call.after[1] = call.grid
       /\ call.ret # 1

\* a call of update_logic whose war pass gave a surviving cell the attributes
\* of another cell, in the grid returned
C7_Witness ==
  /\ prog = "call" /\ call.fn = "update_logic"
  /\ \E p \in Alive(call.grid) :
       /\ call.after.lists[call.ret][p] # 0
       /\ call.after.dicts[call.after.lists[call.ret][p]] # call.grid[p]
  /\ ValueOf(call.after, 1) = call.grid

\* C8 as stated: the step function called twice with the same input grid
\* returns two equal grids: the same cells alive, with the same colour and
\* attributes, at every coordinate.
C8_TwiceEqual ==
  (prog = "call" /\ call.fn \in {"update_logic_twice", "update_grid_twice"}) =>
    call.first = call.second

\* C8: the step function called twice with the same input grid returns two
\* grids with the same cells alive; a cell of cube.py that survives has the
\* colour of the input in both; the two grids are equal when the random
\* decisions of the two calls (the attributes of the cells born, the wars
\* won) are the same.
C8_TwiceSameAlive ==
  /\ (prog = "call" /\ call.fn = "update_logic_twice") =>
       /\ Alive(call.first) = Alive(call.second)
       /\ call.same_rnd => call.first = call.second
  /\ (prog = "call" /\ call.fn = "update_grid_twice") =>
       /\ CubeAlive(call.first) = CubeAlive(call.second)
       /\ \A p \in CubeAlive(call.grid) \cap CubeAlive(call.first) :
            call.first[p] = call.grid[p] /\ call.second[p] = call.grid[p]
       /\ call.same_rnd => call.first = call.second

\* two calls of update_logic that made different random decisions and
\* returned grids that differ in a cell
C8_Witness ==
  /\ prog = "call" /\ call.fn = "update_logic_twice"
  /\ ~call.same_rnd
  /\ Alive(call.first) = Alive(call.second)
  /\ \E p \in Alive(call.first) : call.first[p] # call.second[p]

\* C9 as stated: update_logic returns a grid in which a live cell with 2 or 3
\* live neighbours is alive with its attributes unchanged, a live cell with
\* another count is dead, a dead cell with 3 live neighbours is alive and a
\* dead cell with another count is dead.
C9_ClassicUnchanged ==
  (prog = "call" /\ call.fn = "update_logic") =>
    \A out \in {ValueOf(call.after, call.ret)} : \A p \in Coords :
      IF call.grid[p] # None
      THEN IF LiveAround(call.grid, p) \in {2, 3}
           THEN out[p] = call.grid[p]
           ELSE out[p] = None
      ELSE IF LiveAround(call.grid, p) = 3
           THEN out[p] # None
           ELSE out[p] = None

\* the grid of the classic rule, before the war pass: the survivors as they
\* are and the cells born as the decision source makes them
Classic(g, birth) ==
  [p \in Coords |->
     IF g[p] # None
     THEN IF LiveAround(g, p) \in {2, 3} THEN g[p] ELSE None
     ELSE IF LiveAround(g, p) = 3 THEN birth[p] ELSE None]

\* the cells around p that can win a war against the cell c at p
Winners(pre, p, c) ==
  {q \in Alive(pre) : Adjacent(p, q) /\ pre[q].offset - c.offset > WAR_THRESHOLD}

\* C9: update_logic returns a grid in which a live cell with 2 or 3 live
\* neighbours is alive, with its attributes unchanged or with the attributes
\* of a cell next to it in the grid of the classic rule whose offset is
\* greater than its own by more than WAR_THRESHOLD (unchanged when there is no
\* such cell), a live cell with another count is dead, a dead cell with 3
\* live neighbours is alive and a dead cell with another count is dead.
C9_ClassicThenWar ==
  (prog = "call" /\ call.fn = "update_logic") =>
    \A out \in {ValueOf(call.after, call.ret)} :
      \A pre \in {Classic(call.grid, RndSource(call.rnd).birth)} :
        \A p \in Coords :
          IF call.grid[p] # None
          THEN IF LiveAround(call.grid, p) \in {2, 3}
               THEN \/ out[p] = call.grid[p]
                    \/ \E q \in Winners(pre, p, call.grid[p]) : out[p] = pre[q]
               ELSE out[p] = None
          ELSE IF LiveAround(call.grid, p) = 3
               THEN out[p] # None
               ELSE out[p] = None

\* a call of update_logic that returns a surviving cell with the attributes
\* of a cell born next to it in the same call
C9_Witness ==
  /\ prog = "call" /\ call.fn = "update_logic"
  /\ \E p, q \in Coords :
       /\ call.grid[p] # None /\ LiveAround(call.grid, p) \in {2, 3}
       /\ call.grid[q] = None /\ LiveAround(call.grid, q) = 3
       /\ Adjacent(p, q)
       /\ ValueOf(call.after, call.ret)[p] = BirthB
       /\ call.grid[p] # BirthB

\* C10: count_neighbors (cube.py over the 26 cells around, main.py over the 8
\* cells around) returns the number of live cells among the coordinates of
\* the grid at distance 1, does not count the cell itself and reads no
\* coordinate out of range; with exactly one live cell, each cell of the grid
\* around it gets 1 and every other coordinate, the live cell included, gets
\* 0, and a cell on an edge gets nothing from the opposite edge.
C10_ClampedCount ==
  /\ (prog = "call" /\ call.fn = "count_neighbors") =>
       \A p \in Coords :
         /\ ~call.result[p].raised
         /\ call.result[p].count = LiveAround(call.grid, p)
         /\ call.result[p].reads \subseteq Coords \ {p}
         /\ \A c \in Alive(call.grid) :
              Alive(call.grid) = {c} =>
                call.result[p].count = IF Adjacent(c, p) THEN 1 ELSE 0
  /\ (prog = "call" /\ call.fn = "cube_count_neighbors") =>
       \A p \in CubeCoords :
         /\ ~call.result[p].raised
         /\ call.result[p].count = CubeLiveAround(call.grid, p)
         /\ call.result[p].reads \subseteq CubeCoords \ {p}
         /\ \A c \in CubeAlive(call.grid) :
              CubeAlive(call.grid) = {c} =>
                call.result[p].count = IF CubeAdjacent(c, p) THEN 1 ELSE 0

\* the counts of a grid of main.py whose one live cell is in a corner: 1 next
\* to it, 0 at the cell itself and on the opposite edges
C10_Witness ==
  /\ prog = "call" /\ call.fn = "count_neighbors"
  /\ Alive(call.grid) = {<<0, 0>>}
  /\ call.result[<<0, 1>>].count = 1
  /\ call.result[<<1, 1>>].count = 1
  /\ call.result[<<0, 0>>].count = 0
  /\ call.result[<<0, GRID_COLS - 1>>].count = 0
  /\ call.result[<<GRID_ROWS - 1, 0>>].count = 0

\* ---------------------------------------------------------------------------
\* Properties of hybrid.py's wrapping neighbourhood
\* ---------------------------------------------------------------------------
\* the 8 offsets (dx, dy) other than (0, 0)
Offsets8 == {d \in {-1, 0, 1} \X {-1, 0, 1} : d # <<0, 0>>}

\* the coordinate at offset d of p on the torus
Torus(p, d) ==
  <<(p[1] + d[1] + HYB_GRID_HEIGHT) % HYB_GRID_HEIGHT,
    (p[2] + d[2] + HYB_GRID_WIDTH) % HYB_GRID_WIDTH>>

\* C11: count_neighbors of hybrid.py counts the live cells among the 8
\* coordinates ((x+dx) mod GRID_HEIGHT, (y+dy) mod GRID_WIDTH): a cell on an
\* edge counts the live cells on the opposite edge, every cell has exactly 8
\* neighbour positions, and the result is in 0..8.
C11_WrappedCount ==
  (prog = "call" /\ call.fn = "hyb_count_neighbors") =>
    \A p \in HybCoords :
      /\ ~call.result[p].raised
      /\ call.result[p].count =
           Cardinality({d \in Offsets8 : hyb_any(call.board[Torus(p, d)])})
      /\ call.result[p].reads = {Torus(p, d) : d \in Offsets8}
      /\ call.result[p].tests = 8
      /\ Cardinality(call.result[p].reads) = 8
      /\ call.result[p].count \in 0 .. 8
      /\ \A c \in HybAlive(call.board) :
           (HybAlive(call.board) = {c} /\ c[1] = HYB_GRID_HEIGHT - 1 /\ p[1] = 0
              /\ p[2] = c[2])
             => call.result[p].count = 1

\* the counts of a board whose one live cell is in the last row and the last
\* column: 1 in the first row and in the first column, 0 at the cell itself
C11_Witness ==
  /\ prog = "call" /\ call.fn = "hyb_count_neighbors"
  /\ HybAlive(call.board) = {<<HYB_GRID_HEIGHT - 1, HYB_GRID_WIDTH - 1>>}
  /\ call.result[<<0, HYB_GRID_WIDTH - 1>>].count = 1
  /\ call.result[<<HYB_GRID_HEIGHT - 1, 0>>].count = 1
  /\ call.result[<<0, 0>>].count = 1
  /\ call.result[<<HYB_GRID_HEIGHT - 1, HYB_GRID_WIDTH - 1>>].count = 0

\* ---------------------------------------------------------------------------
\* Properties of the war pass and of the blend (main.py)
\* ---------------------------------------------------------------------------
\* C12: for a fixed pre-pass grid and a fixed outcome of every takeover
\* decision per (cell, neighbour) pair, apply_war_rules gives the same grid
\* for every order of iteration over the coordinates: every read is from the
\* pre-pass grid, and the write of a cell goes to its own coordinate of the
\* copy, so that a cell of the result is the cell of the pre-pass grid or one
\* of its neighbours there.
C12_OrderIndependent ==
  (prog = "call" /\ call.fn = "apply_war_rules_in_order") =>
    /\ call.ret_in_order = call.ret
    /\ call.input_after = call.grid
    /\ \A p \in Coords :
         IF call.grid[p] = None THEN call.ret[p] = None
         ELSE \/ call.ret[p] = call.grid[p]
              \/ \E q \in Winners(call.grid, p, call.grid[p]) :
                   call.ret[p] = call.grid[q]

\* a war pass run backwards in which two cells next to each other both took
\* the attributes of a neighbour: the later of the two has read the other
\* after the other was written in the copy
C12_Witness ==
  /\ prog = "call" /\ call.fn = "apply_war_rules_in_order"
  /\ call.order = "backwards"
  /\ call.ret_in_order = call.ret
  /\ \E p, q \in Alive(call.grid) :
       /\ Adjacent(p, q)
       /\ call.ret[p] # call.grid[p]
       /\ call.ret[q] # call.grid[q]

\* x lies between a and b inclusive
Between(x, a, b) == (a <= x /\ x <= b) \/ (b <= x /\ x <= a)

\* C13: for two non-empty cells A and B with integer colour channels in
\* 0..255, lerp_cell(A, B, 0) has exactly the colour of A and
\* lerp_cell(A, B, 1) exactly the colour of B in all four channels, and for
\* every t in [0, 1] each channel of the result lies between the channels of
\* A and B, inclusive.
C13_LerpEndpoints ==
  (prog = "call" /\ call.fn = "lerp_cell"
     /\ call.cell1 # None /\ call.cell2 # None) =>
    /\ \A n \in 0 .. LerpSteps :
         /\ ~call.result[n].raised
         /\ \A i \in 1 .. 4 :
              /\ call.result[n].val.color[i] \in 0 .. 255
              /\ Between(call.result[n].val.color[i],
                         call.cell1.color[i], call.cell2.color[i])
    /\ call.result[0].val.color = call.cell1.color
    /\ call.result[LerpSteps].val.color = call.cell2.color

\* lerp_cell of two cells of different colours, with a channel strictly
\* between the two at t = 1/2 and the float arithmetic not exact elsewhere
C13_Witness ==
  /\ prog = "call" /\ call.fn = "lerp_cell" /\ call.fp = "below"
  /\ call.cell1 # None /\ call.cell2 # None
  /\ call.cell1.color = RGBA(7) /\ call.cell2.color = RGBA(1)
  /\ call.result[LerpSteps].val.color = RGBA(1)
  /\ \E n \in 1 .. (LerpSteps - 1) :
       /\ call.result[n].val.color[1] > 186
       /\ call.result[n].val.color[1] < 255

\* the call blends a cell and an empty cell
OneEmpty ==
  /\ prog = "call" /\ call.fn \in {"lerp_cell", "effective_cell"}
  /\ (call.cell1 = None) # (call.cell2 = None)

\* the cell of the two that is not empty
NonEmpty == IF call.cell1 = None THEN call.cell2 ELSE call.cell1

LineAt(a, channel, k, fn, fd) ==
  LET i == (k * fn) \div fd
  IN  IF i + 2 <= Len(a)
      THEN a[i + 1][channel] * fd
             + (a[i + 2][channel] - a[i + 1][channel]) * ((k * fn) % fd)
      ELSE IF i + 1 = Len(a) /\ (k * fn) % fd = 0
           THEN a[i + 1][channel] * fd
           ELSE fd * 100000

\* the output for factor 1 is the input, and for factor 2 every second frame
\* of it
IdentityAndHalf ==
  /\ call.factor = <<1, 1>> => call.new_array = call.sound_array
  /\ call.factor = <<2, 1>> =>
       call.new_array = [k \in 1 .. (Len(call.sound_array) \div 2) |->
                           call.sound_array[2 * k - 1]]

\* C15 as stated: pitch_shift(a, f) of a sample of L frames returns
\* floor(L / f) frames, the k-th of which is per channel the linear
\* interpolation of a at position k * f; with f = 1 the output is a, and
\* with f = 2 it is a[0], a[2], a[4], ...
C15_Interpolation ==
  (prog = "call" /\ call.fn = "pitch_shift") =>
    /\ Len(call.new_array) =
         (Len(call.sound_array) * call.factor[2]) \div call.factor[1]
    /\ \A k \in DOMAIN call.new_array : \A channel \in 1 .. 2 :
         call.new_array[k][channel] * call.factor[2] =
           LineAt(call.sound_array, channel, k - 1, call.factor[1], call.factor[2])
    /\ IdentityAndHalf

\* C15: pitch_shift(a, f) of a sample of L >= 1 frames returns floor(L / f)
\* frames, the k-th of which is per channel the linear interpolation of a at
\* position k * f with its fraction cut off (towards zero), and the last
\* frame of a where k * f is past L - 1; with f = 1 the output is a, and with
\* f = 2 it is a[0], a[2], a[4], ...; of a sample of no frame it raises.
C15_InterpolationCut ==
  (prog = "call" /\ call.fn = "pitch_shift") =>
    IF Len(call.sound_array) = 0 THEN call.raised
    ELSE
      /\ ~call.raised
      /\ Len(call.new_array) =
           (Len(call.sound_array) * call.factor[2]) \div call.factor[1]
      /\ \A k \in DOMAIN call.new_array : \A channel \in 1 .. 2 :
           \A fd \in {call.factor[2]} :
             \A x \in {LineAt(call.sound_array, channel, k - 1, call.factor[1], fd)} :
               \A y \in {call.new_array[k][channel]} :
                 IF x = fd * 100000
                 THEN y = call.sound_array[Len(call.sound_array)][channel]
                 ELSE /\ (x >= 0 => (y * fd <= x /\ x < (y + 1) * fd))
                      /\ (x < 0 => (y * fd >= x /\ x > (y - 1) * fd))
      /\ IdentityAndHalf

\* a sample of 4 frames shifted by 3/2: 2 frames, the second between the
\* frames at 1 and 2 with a fraction that was cut off
C15_Witness ==
  /\ prog = "call" /\ call.fn = "pitch_shift"
  /\ call.factor = <<3, 2>>
  /\ Len(call.sound_array) = 4
  /\ Len(call.new_array) = 2
  /\ call.sound_array[2] = <<-3, 4>> /\ call.sound_array[3] = <<0, -1>>
  /\ call.new_array[2] = <<-1, 1>>

\* ---------------------------------------------------------------------------
\* Properties of a timeline without events (main.py, panda.py)
\* ---------------------------------------------------------------------------
\* main.py: the dispatch loop of a frame that found a timeline without events
\* loaded has dispatched nothing; panda.py: the cursor stays at 0 and no cube
\* is made
C16_Nothing ==
  /\ (prog = "main" /\ midi_events = << >>) =>
       /\ pending_midi_events = << >>
       /\ obs.delivered = << >>
       /\ pc = "advance" =>
            /\ obs.dispatched = << >> /\ obs.sounds = << >>
            /\ current_grid = clear_board
  /\ (prog = "panda" /\ panda_midi_events = << >>) =>
       /\ event_index = 0
       /\ active_notes = << >>
       /\ panda_obs.processed = << >>

\* main.py: the auto-advance of that same frame loads the next timeline and
\* the frame goes on; panda.py: a run of the task handles nothing and the
\* next run follows
C16_Finished ==
  /\ (prog = "main" /\ midi_events = << >> /\ pc = "dispatch") =>
       /\ pc' = "advance"
       /\ UNCHANGED <<current_midi_index, pending_midi_events, current_grid>>
  /\ (prog = "main" /\ midi_events = << >> /\ pc = "advance") =>
       /\ pc' = "step"
       /\ current_midi_index' = (current_midi_index + 1) % Len(midi_files)
       /\ obs'.change = "auto" /\ obs'.loads = obs.loads + 1
       /\ start_time' = clock
       /\ running' = running
  /\ (prog = "panda" /\ panda_midi_events = << >>) =>
       /\ event_index' = 0
       /\ panda_obs'.processed = << >>
       /\ panda_clock' > panda_clock

\* C16: a timeline with zero events is tolerated: nothing fails and nothing
\* is dispatched, and the scheduler takes it as finished at once, in the same
\* frame: in main.py the frame whose dispatch loop finds it loads the next
\* timeline, in panda.py update_scene handles nothing and goes on.
C16_EmptyTimeline == [](C16_Nothing) /\ [][C16_Finished]_vars

\* main.py: LEFT loaded c.mid, which has no note, and the auto-advance of the
\* same frame has loaded a.mid after it
C16_Witness ==
  /\ prog = "main" /\ pc = "step"
  /\ arrow_key_pressed["K_LEFT"]
  /\ obs.change = "auto" /\ obs.loads = 2
  /\ current_midi_index = 0
  /\ obs.dispatched = << >>
  /\ Len(pending_midi_events) = 4
  /\ start_time = clock

\* ---------------------------------------------------------------------------
\* Properties of the sound setup (main.py)
\* ---------------------------------------------------------------------------
\* C17: when the base note sample or a percussion sample is absent, only the
\* synthesizer is off: the program does not end, the automaton keeps
\* stepping and frames keep being rendered; the program ends before its
\* first frame only when no sample is missing, that is, never for the want
\* of one.
C17_SilentSynth ==
  (prog = "main" /\ pc = "crashed") => obs.missing = {}

\* ---------------------------------------------------------------------------
\* Properties of the two grids of main.py
\* ---------------------------------------------------------------------------
\* the live coordinates one step of the classic rule makes of those of g
SuccessorAlive(g) == Alive(Classic(g, [p \in Coords |-> BirthA]))

\* C18: at every frame main.py renders after the first step has been
\* committed, the live coordinates of target_grid are those one step of the
\* classic rule makes of the live coordinates of current_grid.
C18_TargetIsSuccessor ==
  (prog = "main" /\ pc = "render" /\ obs.committed) =>
    Alive(target_grid) = SuccessorAlive(current_grid)

\* ---------------------------------------------------------------------------
\* Properties of the update task of game.py
\* ---------------------------------------------------------------------------
\* C19: over the whole run of game.py, the update task gives each event of
\* the timeline to handle_midi_event at most once, and gives it only in a run
\* of the task whose elapsed time has reached the timestamp of the event.
C19_AtMostOnceWhenDue ==
  prog = "game" =>
    /\ \A i \in DOMAIN game_obs.handled : game_obs.handled[i] <= 1
    /\ \A n \in DOMAIN game_obs.last :
         game_midi_events[game_obs.last[n]].t <= game_time

\* ---------------------------------------------------------------------------
\* Properties of the rule of cube.py
\* ---------------------------------------------------------------------------
\* C20: in the grid update_grid of cube.py returns, a cell that was alive is
\* alive with its colour unchanged when 5, 6 or 7 of the cells of the grid
\* around it were alive and is dead otherwise, and a cell that was dead is
\* alive, with a colour of ROYGBIV, when exactly 6 of the cells around it
\* were alive and is dead otherwise.
C20_B6S567 ==
  (prog = "call" /\ call.fn = "update_grid") =>
    \A out \in {call.after[call.ret]} : \A p \in CubeCoords :
      \A n \in {CubeLiveAround(call.grid, p)} :
        IF call.grid[p] # CubeNone
        THEN IF n \in {5, 6, 7} THEN out[p] = call.grid[p]
             ELSE out[p] = CubeNone
        ELSE IF n = 6
             THEN \E i \in DOMAIN cube_ROYGBIV : out[p] = cube_ROYGBIV[i]
             ELSE out[p] = CubeNone

\* a call of update_grid on a grid with a cell that survives with 5 live
\* cells around it and a cell that is born with 6
C20_Witness ==
  /\ prog = "call" /\ call.fn = "update_grid"
  /\ \E p, b \in CubeCoords :
       /\ call.grid[p] # CubeNone /\ CubeLiveAround(call.grid, p) = 5
       /\ call.after[call.ret][p] = call.grid[p]
       /\ call.grid[b] = CubeNone /\ CubeLiveAround(call.grid, b) = 6
       /\ call.after[call.ret][b] # CubeNone

\* ---------------------------------------------------------------------------
\* Properties of the rule of hybrid.py
\* ---------------------------------------------------------------------------
\* the number of live cells around p on the torus
HybLiveAround(g, p) == Cardinality({d \in Offsets8 : hyb_any(g[Torus(p, d)])})

\* the live cells of g whose colour update_grid moves one row down and one
\* column to the right
Drifting(g) == {q \in HybAlive(g) : HybLiveAround(g, q) = 5}

\* C21, as stated: every live cell with 2, 3 or 4 live neighbours is alive at
\* the same coordinate of the grid update_grid of hybrid.py makes, with its
\* colour unchanged, at every coordinate, the rows and columns on the wrap
\* boundary included.
C21_SurvivorsKeepColour ==
  (prog = "call" /\ call.fn = "hyb_update_grid") =>
    \A p \in HybAlive(call.board) :
      HybLiveAround(call.board, p) \in 2 .. 4 =>
        call.new_board[p] = call.board[p]

\* C21, amended: every live cell with 2, 3 or 4 live neighbours is alive at
\* the same coordinate of the new grid; its colour is unchanged, except in
\* row 0 when the cell one row up and one column to the left on the torus
\* (in the last row) is alive with 5 live neighbours: the colour is then the
\* colour of that cell.
C21_SurvivorsAlive ==
  (prog = "call" /\ call.fn = "hyb_update_grid") =>
    \A p \in HybAlive(call.board) :
      HybLiveAround(call.board, p) \in 2 .. 4 =>
        /\ hyb_any(call.new_board[p])
        /\ call.new_board[p] =
             IF p[1] = 0 /\ Torus(p, <<-1, -1>>) \in Drifting(call.board)
             THEN call.board[Torus(p, <<-1, -1>>)]
             ELSE call.board[p]

\* a call of update_grid with a survivor in row 0 that has the colour of the
\* cell of the last row that moved onto it, a survivor in the last column
\* and a survivor in another row onto which a cell moves and that keeps its
\* colour
C21_Witness ==
  /\ prog = "call" /\ call.fn = "hyb_update_grid"
  /\ \E p, q \in HybAlive(call.board) :
       /\ HybLiveAround(call.board, p) \in 2 .. 4 /\ p[1] = 0
       /\ Torus(p, <<-1, -1>>) \in Drifting(call.board)
       /\ call.new_board[p] # call.board[p]
       /\ HybLiveAround(call.board, q) \in 2 .. 4 /\ q[1] > 0
       /\ q[2] \in {0, HYB_GRID_WIDTH - 1}
       /\ Torus(q, <<-1, -1>>) \in Drifting(call.board)
       /\ call.new_board[q] = call.board[q]
       /\ call.board[q] # call.board[Torus(q, <<-1, -1>>)]

\* the place of the coordinate p in the row-major scan
ScanIndex(p) == p[1] * HYB_GRID_WIDTH + p[2]

\* the assignments of the call to the coordinate c, by position
WritesTo(c) == {n \in DOMAIN call.writes : call.writes[n].dst = c}

\* C22: in update_grid of hybrid.py a live cell at (x, y) with exactly 5 live
\* neighbours writes its colour to ((x+1) mod GRID_HEIGHT, (y+1) mod
\* GRID_WIDTH); the writes are made in the order of the row-major scan, and
\* the colour left at a coordinate is that of the last write made to it (no
\* write leaves it dead), also when the write of a moving cell and the
\* survival or birth of the cell at the destination go to one coordinate.
C22_LastWriteWins ==
  (prog = "call" /\ call.fn = "hyb_update_grid") =>
    /\ \A p \in Drifting(call.board) :
         \E n \in DOMAIN call.writes :
           call.writes[n] = [kind |-> "drift", src |-> p,
                             dst |-> Torus(p, <<1, 1>>),
                             color |-> call.board[p]]
    /\ \A m, n \in DOMAIN call.writes :
         m < n => ScanIndex(call.writes[m].src) < ScanIndex(call.writes[n].src)
    /\ \A c \in HybCoords :
         IF WritesTo(c) = {} THEN call.new_board[c] = HybDead
         ELSE \E n \in WritesTo(c) :
                /\ \A m \in WritesTo(c) : m <= n
                /\ call.new_board[c] = call.writes[n].color

\* a call of update_grid in which a moving cell and a survivor write two
\* colours to one coordinate, and one in which a moving cell writes after
\* the other write
C22_Witness ==
  /\ prog = "call" /\ call.fn = "hyb_update_grid"
  /\ \E m, n \in DOMAIN call.writes :
       /\ m < n
       /\ call.writes[m].dst = call.writes[n].dst
       /\ call.writes[m].color # call.writes[n].color
       /\ call.writes[n].kind = "drift"
       /\ call.new_board[call.writes[n].dst] = call.writes[n].color
  /\ \E m, n \in DOMAIN call.writes :
       /\ m < n
       /\ call.writes[m].dst = call.writes[n].dst
       /\ call.writes[m].color # call.writes[n].color
       /\ call.writes[m].kind = "drift"
       /\ call.new_board[call.writes[n].dst] = call.writes[n].color

PairsOf(events) == [i \in DOMAIN events |-> <<events[i].t, events[i].msg>>]

C24_Advance ==
  (prog = "main" /\ pc = "advance" /\ pending_midi_events = << >>) =>
    /\ pc' = "step" /\ clock' = clock
    /\ current_grid' = clear_board /\ target_grid' = clear_board
    /\ current_midi_index' = (current_midi_index + 1) % Len(midi_files)
    /\ start_time' = clock
    /\ PairsOf(pending_midi_events') =
         PairsOf(extract_midi_events(midi_files[current_midi_index' + 1]))

C24_InRange ==
  prog = "main" => current_midi_index \in 0 .. Len(midi_files) - 1

\* C24: when the queue is empty after the dispatch loop of a frame of main.py,
\* the same frame clears the board, makes current_midi_index
\* (current_midi_index + 1) mod len(midi_files), sets start_time to the clock
\* and loads the queue with all the events of the timeline at the new index;
\* current_midi_index is in 0 .. len(midi_files) - 1 whatever LEFT, RIGHT and
\* auto-advance have done.
C24_AutoAdvance == [](C24_InRange) /\ [][C24_Advance]_vars

\* the frame in which the last event of a.mid was dispatched has loaded b.mid
C24_Witness ==
  /\ prog = "main" /\ pc = "step"
  /\ obs.change = "auto" /\ obs.dispatched # << >>
  /\ current_midi_index = 1 /\ start_time = clock
  /\ Len(pending_midi_events) = 2
  /\ current_grid = clear_board

\* C25: main.py steps the automaton on a cadence of frames: the frame being
\* rendered has committed a step exactly when it ran with paused false and is
\* the TRANSITION_FRAMES-th such frame, or the 2 * TRANSITION_FRAMES-th, and
\* so on; at every render 0 <= transition_counter < TRANSITION_FRAMES, and
\* the fraction t given to the renderer is transition_counter /
\* TRANSITION_FRAMES, in [0, 1), or 0 while paused.
C25_Cadence ==
  (prog = "main" /\ pc = "render") =>
    /\ (obs.update_calls = 2) <=>
         (~paused /\ obs.unpaused > 0 /\ obs.unpaused % TRANSITION_FRAMES = 0)
    /\ 0 <= transition_counter /\ transition_counter < TRANSITION_FRAMES
    /\ obs.t = <<IF paused THEN 0 ELSE transition_counter, TRANSITION_FRAMES>>
    /\ 0 <= obs.t[1] /\ obs.t[1] < obs.t[2]

\* the render of the frame that has committed the second step of the run
C25_Witness ==
  /\ prog = "main" /\ pc = "render"
  /\ obs.update_calls = 2 /\ obs.unpaused = 2 * TRANSITION_FRAMES
  /\ transition_counter = 0

\* ---------------------------------------------------------------------------
\* Properties of the dispatch of one event (main.py)
\* ---------------------------------------------------------------------------
\* the 3 x 3 block with top-left (row, col)
Block(row, col) == {p \in Coords : p[1] - row \in 0 .. 2 /\ p[2] - col \in 0 .. 2}

\* C26: for every note and velocity in 0 .. 127, add_piece_to_board sets the 9
\* cells of the 3 x 3 block with top-left (row, col), 0 <= row <= GRID_ROWS - 3
\* and 0 <= col <= GRID_COLS - 3 (col is 0 for a note of 21 or less and
\* GRID_COLS - 3 for a note of 108 or more), to one new cell with scale
\* 0.5 + velocity / 127 (in 254ths: 127 + 2 * velocity); it changes no other
\* cell of current_grid and no cell of target_grid.
C26_WholeBlock ==
  (prog = "call" /\ call.fn = "add_piece_to_board") =>
    /\ call.target_grid = call.grid
    /\ \E row \in 0 .. GRID_ROWS - 3 : \E col \in 0 .. GRID_COLS - 3 :
         /\ Cardinality(Block(row, col)) = 9
         /\ call.note <= 21 => col = 0
         /\ call.note >= 108 => col = GRID_COLS - 3
         /\ \E new_cell \in {call.current_grid[<<row, col>>]} :
              /\ new_cell # None
              /\ new_cell.scale = 127 + 2 * call.velocity
              /\ \A p \in Coords :
                   call.current_grid[p] =
                     IF p \in Block(row, col) THEN new_cell ELSE call.grid[p]

\* a call of add_piece_to_board with a note above 108 on a board that has
\* live cells outside the block, and they are as they were
C26_Witness ==
  /\ prog = "call" /\ call.fn = "add_piece_to_board"
  /\ call.note = 127 /\ call.velocity = 127
  /\ \E p \in Alive(call.grid) :
       /\ p \notin Block(GRID_ROWS - 3, GRID_COLS - 3)
       /\ call.current_grid[p] = call.grid[p]
  /\ call.current_grid[<<GRID_ROWS - 3, GRID_COLS - 3>>]
       # call.grid[<<GRID_ROWS - 3, GRID_COLS - 3>>]

\* C27: the dispatch of main.py gives an event on channel 9 to play_drum,
\* which plays exactly one sample (kick for the notes 35 and 36, snare for 38
\* and 40, hi-hat for every other note), and leaves current_grid and
\* target_grid as they are; it plays one pitch-shifted note for an event on
\* another channel and puts one piece on current_grid.
C27_DrumOrNote ==
  (prog = "call" /\ call.fn = "dispatch_one") =>
    /\ call.pending = << >>
    /\ Len(call.sounds) = 1
    /\ call.target_grid = call.grid
    /\ IF call.msg.channel = 9
       THEN /\ call.sounds[1].kind = "drum"
            /\ call.sounds[1].sample =
                 IF call.msg.note \in {35, 36} THEN "kick"
                 ELSE IF call.msg.note \in {38, 40} THEN "snare" ELSE "hihat"
            /\ call.current_grid = call.grid
       ELSE /\ call.sounds[1] = [kind |-> "note", note |-> call.msg.note,
                                 velocity |-> call.msg.velocity]
            /\ \E row \in 0 .. GRID_ROWS - 3 : \E col \in 0 .. GRID_COLS - 3 :
                 \A p \in Coords :
                   IF p \in Block(row, col)
                   THEN /\ call.current_grid[p] = call.current_grid[<<row, col>>]
                        /\ call.current_grid[p] # None
                        /\ call.current_grid[p].scale = 127 + 2 * call.msg.velocity
                   ELSE call.current_grid[p] = call.grid[p]

\* the dispatch of a note 37 on channel 9 over a board with live cells: the
\* hi-hat, and the board as it was
C27_Witness ==
  /\ prog = "call" /\ call.fn = "dispatch_one"
  /\ call.msg.channel = 9 /\ call.msg.note = 37
  /\ call.sounds = << [kind |-> "drum", sample |-> "hihat"] >>
  /\ Alive(call.grid) # {} /\ call.current_grid = call.grid

\* ---------------------------------------------------------------------------
\* Properties of the attributes of a blended cell (main.py)
\* ---------------------------------------------------------------------------
\* C28: for two cells A and B, neither empty, and every t, the cell
\* lerp_cell(A, B, t) returns has the offset and the scale of A: they are not
\* interpolated and not taken from B.
C28_AttributesOfFirst ==
  (prog = "call" /\ call.fn = "lerp_cell"
     /\ call.cell1 # None /\ call.cell2 # None) =>
    \A n \in 0 .. LerpSteps :
      /\ call.result[n].val.offset = call.cell1.offset
      /\ call.result[n].val.scale = call.cell1.scale

\* lerp_cell of two cells that differ in colour, offset and scale: at t = 1
\* the colour of the second with the offset and the scale of the first
C28_Witness ==
  /\ prog = "call" /\ call.fn = "lerp_cell"
  /\ call.cell1 # None /\ call.cell2 # None
  /\ call.cell1.offset # call.cell2.offset
  /\ call.cell1.scale # call.cell2.scale
  /\ call.cell1.color # call.cell2.color
  /\ call.result[LerpSteps].val =
       [color |-> call.cell2.color, offset |-> call.cell1.offset,
        scale |-> call.cell1.scale]

\* ---------------------------------------------------------------------------
\* Properties of the pieces on the rendered board (main.py)
\* ---------------------------------------------------------------------------
\* C29: when main.py renders a frame, current_grid has, for every event on a
\* channel other than 9 that the frame has dispatched, the last event of a
\* timeline included, a 3 x 3 block of live cells where the piece of the event
\* was put.
C29_PieceRendered ==
  (prog = "main" /\ pc = "render") =>
    \A i \in DOMAIN obs.dispatched :
      obs.dispatched[i].msg.channel # DRUM_CHANNEL =>
        \E row \in 0 .. GRID_ROWS - 3 : \E col \in 0 .. GRID_COLS - 3 :
          Block(row, col) \subseteq Alive(current_grid)

\* ---------------------------------------------------------------------------
\* Progress of the two schedulers (main.py, panda.py)
\* ---------------------------------------------------------------------------
\* the clock reading every run left to play gets to: a frame starts as long
\* as the shortest tick keeps the clock within MaxClock
Horizon == MaxClock - 150 + 1
PandaHorizon == MaxClock - 10 + 1

\* no event that is due before the clock stops waits: in the queue of
\* main.py, or after the cursor of panda.py
Settled ==
  /\ prog = "main" =>
       \A i \in DOMAIN pending_midi_events :
         start_time + pending_midi_events[i].t > Horizon
  /\ prog = "panda" =>
       \A i \in (event_index + 1) .. Len(panda_midi_events) :
         panda_start_time + panda_midi_events[i].t > PandaHorizon

\* the whole of the timeline being played is due before the clock stops
WaitsWhole ==
  \/ /\ prog = "main" /\ pending_midi_events # << >>
     /\ \A i \in DOMAIN pending_midi_events :
          start_time + pending_midi_events[i].t <= Horizon
  \/ /\ prog = "panda"
     /\ \A i \in DOMAIN panda_midi_events :
          panda_start_time + panda_midi_events[i].t <= PandaHorizon

\* the dispatch loop of main.py has left the queue empty, or the cursor of
\* panda.py is at the end of midi_events
Finished ==
  \/ prog = "main" /\ pc = "advance" /\ pending_midi_events = << >>
  \/ prog = "panda" /\ event_index = Len(panda_midi_events)

\* C30: in main.py, while the clock advances and neither LEFT nor RIGHT is
\* pressed, every event waiting in the queue of the timeline being played is
\* eventually dispatched (nothing but the dispatch loop takes an event from
\* the queue) and the queue eventually becomes empty, paused or not; in
\* panda.py the cursor eventually reaches the end of midi_events.
C30_EventuallyDispatched == <>[]Settled /\ (WaitsWhole ~> Finished)

\* the frame that ends the timeline a.mid, run while paused
C30_Witness ==
  /\ prog = "main" /\ pc = "advance" /\ paused
  /\ current_midi_index = 0 /\ obs.loads = 0
  /\ pending_midi_events = << >> /\ obs.dispatched # << >>

\* ---------------------------------------------------------------------------
\* The entries of the two grids of main.py
\* ---------------------------------------------------------------------------
\* None, or a cell with the three attributes: a colour of ROYGBIV with alpha
\* 255, an offset in [0, 1) (in hundredths) and a scale in [0.5, 1.5] (in
\* 254ths)
WholeCell(cell) ==
  IF cell = None THEN TRUE
  ELSE /\ DOMAIN cell = {"color", "offset", "scale"}
       /\ \E i \in DOMAIN ROYGBIV : cell.color = ROYGBIV[i] \o <<255>>
       /\ cell.offset \in 0 .. 99
       /\ cell.scale \in 127 .. 381

\* C31: in main.py, whatever seeding, steps, war passes, pieces and board
\* clears there have been, current_grid and target_grid have GRID_ROWS x
\* GRID_COLS entries each, and every entry is None or a cell with all three
\* attributes: a colour of ROYGBIV with alpha 255, an offset in [0, 1) and a
\* scale in [0.5, 1.5].
C31_WholeCells ==
  prog = "main" =>
    /\ DOMAIN current_grid = Coords /\ DOMAIN target_grid = Coords
    /\ Cardinality(Coords) = GRID_ROWS * GRID_COLS
    /\ \A p \in Coords : WholeCell(current_grid[p]) /\ WholeCell(target_grid[p])

\* a frame rendered after a board clear, with a piece on current_grid and a
\* step committed
C31_Witness ==
  /\ prog = "main" /\ pc = "render"
  /\ obs.committed /\ obs.loads > 0
  /\ \E p \in Alive(current_grid) : current_grid[p].scale \notin {127, 254, 381}

\* ---------------------------------------------------------------------------
\* The live cells of the next grid, as a function of the live cells
\* ---------------------------------------------------------------------------
\* cube.py: B6/S567 among the 26 cells around, on the set live
CubePattern(live) ==
  {p \in CubeCoords :
     LET n == Cardinality({q \in live : CubeAdjacent(p, q)})
     IN  IF p \in live THEN n \in SURVIVE_COUNTS ELSE n = BIRTH_COUNT}

\* main.py: B3/S23 among the 8 cells around, on the set live; a war leaves
\* a live cell live and a dead cell dead
MainPattern(live) ==
  {p \in Coords :
     LET n == Cardinality({q \in live : Adjacent(p, q)})
     IN  IF p \in live THEN n \in {2, 3} ELSE n = 3}

\* the number of cells of live around p on the torus
AroundOnTorus(live, p) == Cardinality({d \in Offsets8 : Torus(p, d) \in live})

\* hybrid.py: the survivors, the births and the coordinates the cells with 5
\* live neighbours move to, on the set live
HybPattern(live) ==
  {p \in HybCoords :
     \/ p \in live /\ AroundOnTorus(live, p) \in 2 .. 4
     \/ p \notin live /\ AroundOnTorus(live, p) \in {3, 6}
     \/ LET q == Torus(p, <<-1, -1>>)
        IN  q \in live /\ AroundOnTorus(live, q) = 5}

HybCells == HYB_GRID_HEIGHT * HYB_GRID_WIDTH

\* the coordinates in the order of the two for loops of update_grid
RowMajor == [i \in 1 .. HybCells |->
               <<(i - 1) \div HYB_GRID_WIDTH, (i - 1) % HYB_GRID_WIDTH>>]

\* other orders to scan the coordinates in: row-major backwards, and column
\* by column
HybScans ==
  {RowMajor,
   [i \in 1 .. HybCells |-> RowMajor[HybCells + 1 - i]],
   [i \in 1 .. HybCells |->
      <<(i - 1) % HYB_GRID_HEIGHT, (i - 1) \div HYB_GRID_HEIGHT>>]}

\* hybrid.py:159-170 with the coordinates scanned in the order scan, from
\* its i-th coordinate on
RECURSIVE hyb_update_in(_, _, _, _, _)
hyb_update_in(st, grid, rnd, scan, i) ==
  IF i > Len(scan) THEN st
  ELSE hyb_update_in(hyb_update_cell(st, grid, rnd, scan[i][1], scan[i][2]),
                     grid, rnd, scan, i + 1)

\* the grid update_grid would make of grid, scanning in the order scan
HybScanned(grid, rnd, scan) ==
  hyb_update_in([new_grid |-> hyb_zeros, writes |-> << >>], grid, rnd, scan, 1).new_grid

\* C32: what is alive in the grid a step makes is a function of what is
\* alive in the grid it is given, and of nothing else: for update_grid of
\* cube.py, update_logic of main.py (war pass included) and update_grid of
\* hybrid.py (cells with 5 neighbours moving), whatever the random colours
\* and attributes of the births and the random outcomes of the wars, and, in
\* hybrid.py, whatever the order the coordinates are scanned in.
C32_PatternAlone ==
  prog = "call" =>
    /\ call.fn = "update_grid" =>
         CubeAlive(call.after[call.ret]) = CubePattern(CubeAlive(call.grid))
    /\ call.fn = "update_logic" =>
         Alive(ValueOf(call.after, call.ret)) = MainPattern(Alive(call.grid))
    /\ call.fn = "hyb_update_grid" =>
         /\ HybAlive(call.new_board) = HybPattern(HybAlive(call.board))
         /\ HybScanned(call.board, HybSource(call.rnd), RowMajor) = call.new_board
         /\ \A scan \in HybScans :
              HybAlive(HybScanned(call.board, HybSource(call.rnd), scan))
                = HybAlive(call.new_board)

\* a call of update_grid of hybrid.py with a birth and a moving cell, in
\* which another scan order leaves another colour at a coordinate, and the
\* same cells alive
C32_Witness ==
  /\ prog = "call" /\ call.fn = "hyb_update_grid"
  /\ \E n \in DOMAIN call.writes : call.writes[n].kind = "birth"
  /\ Drifting(call.board) # {}
  /\ \E scan \in HybScans :
       \E g \in {HybScanned(call.board, HybSource(call.rnd), scan)} :
         /\ g # call.new_board
         /\ HybAlive(g) = HybAlive(call.new_board)

\* ---------------------------------------------------------------------------
\* panda.py: the notes that have a cube
\* ---------------------------------------------------------------------------
\* the longest file of the files update_scene is run on
MaxEvents == 3

SceneNotes == {60, 61}

\* the note messages of a file: 100 ms apart, note_on with a velocity and
\* with velocity 0, and note_off
SceneMessages ==
  {Msg(ty, 100, 0, n, v) : ty \in {"note_on", "note_off"}, n \in SceneNotes,
                           v \in {0, 64}}

SceneFiles == UNION {[1 .. n -> SceneMessages] : n \in 1 .. MaxEvents}

\* the real time between two runs of the task: one event or two come due
SceneTicks == {100, 200}

\* panda.py:11-34: a MidiVisualizer of a file
SceneInit ==
  /\ prog = "call"
  /\ call \in [fn : {"scene_input"}, mid : SceneFiles, clock : {0},
               event_index : {0}, active_notes : {<< >>}]

\* panda.py:92-112  update_scene(task), on the events of process_midi
CallUpdateScene ==
  /\ prog = "call" /\ call.fn \in {"scene_input", "update_scene"}
  /\ \E dt \in SceneTicks :
       /\ call.clock + dt <= 100 * MaxEvents
       /\ \E r \in {update_scene_loop([event_index |-> call.event_index,
                                        active_notes |-> call.active_notes,
                                        processed |-> << >>],
                                       process_midi(call.mid), call.clock + dt)} :
            call' = [fn |-> "update_scene", mid |-> call.mid,
                     clock |-> call.clock + dt,
                     event_index |-> r.event_index,
                     active_notes |-> r.active_notes]
  /\ UNCHANGED <<prog, notCall>>

InitNotes == SceneInit /\ MainIdle /\ CubeIdle /\ PandaIdle /\ GameIdle

NextNotes == CallUpdateScene

SpecNotes == InitNotes /\ [][NextNotes]_vars

\* the events update_scene has processed
ProcessedEvents == SubSeq(process_midi(call.mid), 1, call.event_index)

\* a note_on with a velocity
SoundsNote(m) == m.type = "note_on" /\ m.velocity > 0

\* the places of the processed events for the note
PlacesOf(note) ==
  {i \in DOMAIN ProcessedEvents : ProcessedEvents[i].msg.note = note}

\* the place of the note_on that made the cube of a note whose last event is
\* at place last: the first of the note_ons that end there with nothing else
\* for the note between them
MadeAt(note, last) ==
  CHOOSE j \in PlacesOf(note) :
    /\ j <= last
    /\ \A i \in PlacesOf(note) : j <= i => SoundsNote(ProcessedEvents[i].msg)
    /\ \A i \in PlacesOf(note) : i < j =>
         \E k \in PlacesOf(note) :
           i <= k /\ k < j /\ ~SoundsNote(ProcessedEvents[k].msg)

\* C33: in panda.py, whatever prefix of the event list update_scene has
\* processed, a note is a key of active_notes if and only if the last
\* processed event for the note is a note_on with velocity > 0; the cube of
\* the note is the one made by the first note_on since the note was last
\* inactive (a note_on for an active note makes no second cube, and a
\* note_off for an inactive note removes nothing), so a note has at most one
\* cube.
C33_ActiveIffLastIsNoteOn ==
  (prog = "call" /\ call.fn = "update_scene") =>
    /\ DOMAIN call.active_notes \subseteq SceneNotes
    /\ \A note \in SceneNotes :
         LET places == PlacesOf(note)
         IN  IF places = {} THEN note \notin DOMAIN call.active_notes
             ELSE \E last \in places :
                    /\ \A i \in places : i <= last
                    /\ IF SoundsNote(ProcessedEvents[last].msg)
                       THEN /\ note \in DOMAIN call.active_notes
                            /\ call.active_notes[note] = MadeAt(note, last) - 1
                       ELSE note \notin DOMAIN call.active_notes

\* the task has processed a note_on for a note that was active and a
\* note_off for a note that was not, and a note has a cube
C33_Witness ==
  /\ prog = "call" /\ call.fn = "update_scene"
  /\ DOMAIN call.active_notes # {}
  /\ \E i, j \in DOMAIN ProcessedEvents :
       /\ i < j
       /\ ProcessedEvents[i].msg.note = ProcessedEvents[j].msg.note
       /\ SoundsNote(ProcessedEvents[i].msg) /\ SoundsNote(ProcessedEvents[j].msg)
       /\ \A k \in (i + 1) .. (j - 1) :
            ProcessedEvents[k].msg.note # ProcessedEvents[i].msg.note
  /\ \E j \in DOMAIN ProcessedEvents :
       /\ ~SoundsNote(ProcessedEvents[j].msg)
       /\ \A i \in 1 .. (j - 1) :
            ProcessedEvents[i].msg.note # ProcessedEvents[j].msg.note
====
